---- MODULE Spec2Model ----
(***************************************************************************)
(* Concurrency patterns of go-fast: worker pool, fan-out / fan-in,         *)
(* broadcast (subscribe), cancellation and the closure rate limiter.       *)
(*                                                                         *)
(* Every pattern is a specification of its own (SpecPool, SpecFan,         *)
(* SpecBroadcast, SpecCancel, SpecLimiter) over the variable that holds    *)
(* the pattern's state; the other variables stay at their initial value.   *)
(* A goroutine is a program counter plus its locals; a channel is a        *)
(* record [buf, cap, closed]; an unbuffered channel hands a value over in  *)
(* one step that moves the sender and the receiver together.               *)
(***************************************************************************)
EXTENDS Integers, Sequences, FiniteSets, Bags, TLC

VARIABLES pool, fan, bc, cs, rl, pl, rc, dw, df, rt, ro, th

vars == <<pool, fan, bc, cs, rl, pl, rc, dw, df, rt, ro, th>>

(***************************************************************************)
(* Helpers                                                                 *)
(***************************************************************************)

\* make(chan T, n)
MakeChan(n) == [buf |-> <<>>, cap |-> n, closed |-> 0]

\* a send on a buffered channel proceeds when the buffer has room
CanSend(ch) == Len(ch.buf) < ch.cap

\* a receive proceeds when a value is buffered
CanRecv(ch) == Len(ch.buf) > 0

\* `range ch` ends when the channel is closed and drained
Drained(ch) == ch.closed > 0 /\ Len(ch.buf) = 0

RECURSIVE SeqToBag(_)
SeqToBag(s) ==
    IF s = <<>> THEN EmptyBag ELSE SetToBag({Head(s)}) (+) SeqToBag(Tail(s))

(***************************************************************************)
(* Worker pool: workerPoolExample / workerPool and waitGroupWithContext    *)
(***************************************************************************)

\* bounds of the explored job and worker counts
MaxJobs == 4
MaxWorkers == 3

\* channel capacities of the two pools in the source
PoolCap100 == 100
PoolCap10 == 10

\* the smallest job count that no longer fits the results buffer of
\* waitGroupWithContext; explored with one worker
OverflowJobs == PoolCap10 + 1

\* the smallest job count that fits neither the two buffers of
\* waitGroupWithContext nor its one worker; explored with one worker
DeepOverflowJobs == 2 * PoolCap10 + 2

PoolConfigs ==
    {c \in [numJobs : 1..MaxJobs, numWorkers : 1..MaxWorkers, cap : {PoolCap10, PoolCap100}] :
        c.numWorkers <= c.numJobs}
    \cup [numJobs : {OverflowJobs}, numWorkers : {1}, cap : {PoolCap10, PoolCap100}]
    \cup [numJobs : {DeepOverflowJobs}, numWorkers : {1}, cap : {PoolCap10}]

PoolIdle ==
    [numJobs |-> 0, numWorkers |-> 0, jobs |-> MakeChan(0), results |-> MakeChan(0),
     wg |-> 0, opc |-> "off", w |-> 0, j |-> 0,
     wpc |-> <<>>, job |-> <<>>, collected |-> <<>>, fail |-> 0]

PoolStart(c) ==
    [numJobs |-> c.numJobs, numWorkers |-> c.numWorkers,
     jobs |-> MakeChan(c.cap), results |-> MakeChan(c.cap),
     wg |-> 0, opc |-> "spawn", w |-> 1, j |-> 1,
     wpc |-> [i \in 1..c.numWorkers |-> "unstarted"],
     job |-> [i \in 1..c.numWorkers |-> 0],
     collected |-> <<>>, fail |-> 0]

\* the same pool when the processing of job f panics (f = 0: of no job)
PoolStartFailing(c, f) == [PoolStart(c) EXCEPT !.fail = f]

PoolWorkers == 1..pool.numWorkers

\* the unit of work of a pool worker
Process(job) == job * 2

\* for w := 1; w <= numWorkers; w++ { wg.Add(1); go workerPool(...) }
PoolSpawn ==
    /\ pool.opc = "spawn"
    /\ IF pool.w <= pool.numWorkers
       THEN pool' = [pool EXCEPT !.wg = @ + 1, !.wpc[pool.w] = "range", !.w = @ + 1]
       ELSE pool' = [pool EXCEPT !.opc = "send"]
    /\ UNCHANGED <<fan, bc, cs, rl, pl, rc, dw, df, rt, ro, th>>

\* for j := 1; j <= 9; j++ { jobs <- j }
PoolSendJob ==
    /\ pool.opc = "send"
    /\ IF pool.j <= pool.numJobs
       THEN /\ CanSend(pool.jobs)
            /\ pool' = [pool EXCEPT !.jobs.buf = Append(@, pool.j), !.j = @ + 1]
       ELSE pool' = [pool EXCEPT !.opc = "close"]
    /\ UNCHANGED <<fan, bc, cs, rl, pl, rc, dw, df, rt, ro, th>>

\* close(jobs)
PoolCloseJobs ==
    /\ pool.opc = "close"
    /\ pool' = [pool EXCEPT !.jobs.closed = @ + 1, !.opc = "wait"]
    /\ UNCHANGED <<fan, bc, cs, rl, pl, rc, dw, df, rt, ro, th>>

\* mutation of PoolWait: the orchestrator goes on without waiting for wg
PoolWaitNoBlock ==
    /\ pool.opc = "wait"
    /\ pool' = [pool EXCEPT !.opc = "closeResults"]
    /\ UNCHANGED <<fan, bc, cs, rl, pl, rc, dw, df, rt, ro, th>>

\* wg.Wait()
PoolWait ==
    /\ pool.opc = "wait"
    /\ pool.wg = 0
    /\ pool' = [pool EXCEPT !.opc = "closeResults"]
    /\ UNCHANGED <<fan, bc, cs, rl, pl, rc, dw, df, rt, ro, th>>

\* close(results)
PoolCloseResults ==
    /\ pool.opc = "closeResults"
    /\ pool' = [pool EXCEPT !.results.closed = @ + 1, !.opc = "collect"]
    /\ UNCHANGED <<fan, bc, cs, rl, pl, rc, dw, df, rt, ro, th>>

\* mutation of PoolCollect: the receive takes the value buffered last
PoolCollectNewestFirst ==
    /\ pool.opc = "collect"
    /\ \/ /\ CanRecv(pool.results)
          /\ pool' = [pool EXCEPT
                         !.collected = Append(@, pool.results.buf[Len(pool.results.buf)]),
                         !.results.buf = SubSeq(@, 1, Len(@) - 1)]
       \/ /\ Drained(pool.results)
          /\ pool' = [pool EXCEPT !.opc = "done"]
    /\ UNCHANGED <<fan, bc, cs, rl, pl, rc, dw, df, rt, ro, th>>

\* for result := range results { ... }
PoolCollect ==
    /\ pool.opc = "collect"
    /\ \/ /\ CanRecv(pool.results)
          /\ pool' = [pool EXCEPT !.collected = Append(@, Head(pool.results.buf)),
                                  !.results.buf = Tail(@)]
       \/ /\ Drained(pool.results)
          /\ pool' = [pool EXCEPT !.opc = "done"]
    /\ UNCHANGED <<fan, bc, cs, rl, pl, rc, dw, df, rt, ro, th>>

\* for job := range jobs: take the next job
WorkerRecv(i) ==
    /\ pool.wpc[i] = "range"
    /\ CanRecv(pool.jobs)
    /\ pool' = [pool EXCEPT !.job[i] = Head(pool.jobs.buf), !.jobs.buf = Tail(@),
                            !.wpc[i] = "send"]
    /\ UNCHANGED <<fan, bc, cs, rl, pl, rc, dw, df, rt, ro, th>>

\* results <- job * 2 (a send on a closed channel panics)
WorkerSend(i) ==
    /\ pool.wpc[i] = "send"
    /\ pool.job[i] # pool.fail
    /\ IF pool.results.closed > 0
       THEN pool' = [pool EXCEPT !.wpc[i] = "panic"]
       ELSE /\ CanSend(pool.results)
            /\ pool' = [pool EXCEPT !.results.buf = Append(@, Process(pool.job[i])),
                                    !.wpc[i] = "range"]
    /\ UNCHANGED <<fan, bc, cs, rl, pl, rc, dw, df, rt, ro, th>>

\* mutation of WorkerExit: the worker leaves when jobs is empty, closed or not
WorkerExitOnEmpty(i) ==
    /\ pool.wpc[i] = "range"
    /\ Len(pool.jobs.buf) = 0
    /\ pool' = [pool EXCEPT !.wg = @ - 1, !.wpc[i] = "done"]
    /\ UNCHANGED <<fan, bc, cs, rl, pl, rc, dw, df, rt, ro, th>>

\* the range loop ends on the closed, drained jobs channel; defer wg.Done()
WorkerExit(i) ==
    /\ pool.wpc[i] = "range"
    /\ Drained(pool.jobs)
    /\ pool' = [pool EXCEPT !.wg = @ - 1, !.wpc[i] = "done"]
    /\ UNCHANGED <<fan, bc, cs, rl, pl, rc, dw, df, rt, ro, th>>

\* the processing of the job panics: the loop body is left, unwinding begins
WorkerPanic(i) ==
    /\ pool.opc # "crashed"
    /\ pool.wpc[i] = "send"
    /\ pool.job[i] = pool.fail
    /\ pool' = [pool EXCEPT !.wpc[i] = "panicking"]
    /\ UNCHANGED <<fan, bc, cs, rl, pl, rc, dw, df, rt, ro, th>>

\* the panicking worker runs its deferred call: defer wg.Done()
WorkerUnwind(i) ==
    /\ pool.opc # "crashed"
    /\ pool.wpc[i] = "panicking"
    /\ pool' = [pool EXCEPT !.wg = @ - 1, !.wpc[i] = "unwound"]
    /\ UNCHANGED <<fan, bc, cs, rl, pl, rc, dw, df, rt, ro, th>>

\* workerPool has no recover: the panic leaves the goroutine and the Go
\* runtime ends the program, the orchestrator and all workers with it
PoolCrash ==
    /\ pool.opc # "crashed"
    /\ \E i \in PoolWorkers : pool.wpc[i] = "unwound"
    /\ pool' = [pool EXCEPT !.opc = "crashed"]
    /\ UNCHANGED <<fan, bc, cs, rl, pl, rc, dw, df, rt, ro, th>>

PoolNext ==
    \/ PoolSpawn
    \/ PoolSendJob
    \/ PoolCloseJobs
    \/ PoolWait
    \/ PoolCloseResults
    \/ PoolCollect
    \/ \E i \in PoolWorkers : WorkerRecv(i)
    \/ \E i \in PoolWorkers : WorkerSend(i)
    \/ \E i \in PoolWorkers : WorkerExit(i)

\* the pool with a job whose processing panics
PoolPanicNext ==
    \/ pool.opc # "crashed" /\ PoolNext
    \/ \E i \in PoolWorkers : WorkerPanic(i)
    \/ \E i \in PoolWorkers : WorkerUnwind(i)
    \/ PoolCrash

(***************************************************************************)
(* Fan-out / fan-in: fanOutFanInExample, fanOut, fanIn                     *)
(***************************************************************************)

\* bounds of the explored item and worker counts
MaxItems == 3
MaxFanWorkers == 3

FanConfigs == [n : 0..MaxItems, workers : 1..MaxFanWorkers]

\* input and the outputs are unbuffered: only their closed count is state.
\* mpc is the main goroutine, ppc the sender of the input, fo the fan-out
\* workers, fi the fan-in forwarders, cpc the goroutine of wg.Wait().
FanStart(c) ==
    [n |-> c.n, workers |-> c.workers,
     mpc |-> "fanOut", i |-> 0,
     inputClosed |-> 0,
     ppc |-> "unstarted", next |-> 1,
     fo |-> [x \in 0..(c.workers - 1) |-> "unstarted"],
     foVal |-> [x \in 0..(c.workers - 1) |-> 0],
     outputsClosed |-> [x \in 0..(c.workers - 1) |-> 0],
     sentOn |-> [x \in 0..(c.workers - 1) |-> <<>>],
     fi |-> [x \in 0..(c.workers - 1) |-> "unstarted"],
     fiVal |-> [x \in 0..(c.workers - 1) |-> 0],
     wg |-> 0,
     cpc |-> "unstarted",
     outputClosed |-> 0,
     received |-> <<>>]

FanIdx == 0..(fan.workers - 1)

\* n * n // Square the number
Square(n) == n * n

\* fanOut: for i := 0; i < workers; i++ { output := make(chan int); go func ... }
FanOutSpawn ==
    /\ fan.mpc = "fanOut"
    /\ IF fan.i < fan.workers
       THEN fan' = [fan EXCEPT !.fo[fan.i] = "range", !.i = @ + 1]
       ELSE fan' = [fan EXCEPT !.mpc = "fanIn", !.i = 0]
    /\ UNCHANGED <<pool, bc, cs, rl, pl, rc, dw, df, rt, ro, th>>

\* fanIn: for _, input := range inputs { wg.Add(1); go func ... }
FanInSpawn ==
    /\ fan.mpc = "fanIn"
    /\ IF fan.i < fan.workers
       THEN fan' = [fan EXCEPT !.wg = @ + 1, !.fi[fan.i] = "range", !.i = @ + 1]
       ELSE fan' = [fan EXCEPT !.mpc = "goWait"]
    /\ UNCHANGED <<pool, bc, cs, rl, pl, rc, dw, df, rt, ro, th>>

\* fanIn: go func() { wg.Wait(); close(output) }()
FanInSpawnWait ==
    /\ fan.mpc = "goWait"
    /\ fan' = [fan EXCEPT !.cpc = "wait", !.mpc = "goSend"]
    /\ UNCHANGED <<pool, bc, cs, rl, pl, rc, dw, df, rt, ro, th>>

\* fanOutFanInExample: go func() { defer close(input); for i := 1; i <= 6; i++ ... }()
FanSpawnSender ==
    /\ fan.mpc = "goSend"
    /\ fan' = [fan EXCEPT !.ppc = "send", !.mpc = "range"]
    /\ UNCHANGED <<pool, bc, cs, rl, pl, rc, dw, df, rt, ro, th>>

\* mutation of FanInputHandoff: the value stays available to the next receive
FanInputHandoffNoAdvance(x) ==
    /\ fan.ppc = "send"
    /\ fan.next <= fan.n
    /\ fan.fo[x] = "range"
    /\ fan' = [fan EXCEPT !.fo[x] = "send", !.foVal[x] = fan.next]
    /\ UNCHANGED <<pool, bc, cs, rl, pl, rc, dw, df, rt, ro, th>>

\* input <- i meets `for n := range input` of fan-out worker x
FanInputHandoff(x) ==
    /\ fan.ppc = "send"
    /\ fan.next <= fan.n
    /\ fan.fo[x] = "range"
    /\ fan' = [fan EXCEPT !.next = @ + 1, !.fo[x] = "send", !.foVal[x] = fan.next]
    /\ UNCHANGED <<pool, bc, cs, rl, pl, rc, dw, df, rt, ro, th>>

\* the sender's loop is over: defer close(input)
FanCloseInput ==
    /\ fan.ppc = "send"
    /\ fan.next > fan.n
    /\ fan' = [fan EXCEPT !.inputClosed = @ + 1, !.ppc = "done"]
    /\ UNCHANGED <<pool, bc, cs, rl, pl, rc, dw, df, rt, ro, th>>

\* mutation of FanOutputHandoff: the forwarder discards the value it received
FanOutputHandoffDrop(x) ==
    /\ fan.fo[x] = "send"
    /\ fan.fi[x] = "range"
    /\ fan' = [fan EXCEPT !.fo[x] = "range",
                          !.sentOn[x] = Append(@, Square(fan.foVal[x]))]
    /\ UNCHANGED <<pool, bc, cs, rl, pl, rc, dw, df, rt, ro, th>>

\* output <- n * n of fan-out worker x meets `for value := range ch` of forwarder x
FanOutputHandoff(x) ==
    /\ fan.fo[x] = "send"
    /\ fan.fi[x] = "range"
    /\ fan' = [fan EXCEPT !.fo[x] = "range",
                          !.sentOn[x] = Append(@, Square(fan.foVal[x])),
                          !.fi[x] = "send", !.fiVal[x] = Square(fan.foVal[x])]
    /\ UNCHANGED <<pool, bc, cs, rl, pl, rc, dw, df, rt, ro, th>>

\* mutation of FanOutExit: a worker that processed nothing leaves its output open
FanOutExitIdleKeepsOpen(x) ==
    /\ fan.fo[x] = "range"
    /\ fan.inputClosed > 0
    /\ fan' = [fan EXCEPT !.fo[x] = "done",
                          !.outputsClosed[x] = IF fan.sentOn[x] = <<>> THEN @ ELSE @ + 1]
    /\ UNCHANGED <<pool, bc, cs, rl, pl, rc, dw, df, rt, ro, th>>

\* fan-out worker x: range over the closed input ends; defer close(output)
FanOutExit(x) ==
    /\ fan.fo[x] = "range"
    /\ fan.inputClosed > 0
    /\ fan' = [fan EXCEPT !.fo[x] = "done", !.outputsClosed[x] = @ + 1]
    /\ UNCHANGED <<pool, bc, cs, rl, pl, rc, dw, df, rt, ro, th>>

\* mutation of FanInForward: the value overtakes what main already received
FanInForwardOvertakes(x) ==
    /\ fan.fi[x] = "send"
    /\ IF fan.outputClosed > 0
       THEN fan' = [fan EXCEPT !.fi[x] = "panic"]
       ELSE /\ fan.mpc = "range"
            /\ fan' = [fan EXCEPT !.fi[x] = "range",
                                  !.received = <<fan.fiVal[x]>> \o @]
    /\ UNCHANGED <<pool, bc, cs, rl, pl, rc, dw, df, rt, ro, th>>

\* forwarder x: output <- value meets `for result := range output` of main
\* (a send on the closed output panics)
FanInForward(x) ==
    /\ fan.fi[x] = "send"
    /\ IF fan.outputClosed > 0
       THEN fan' = [fan EXCEPT !.fi[x] = "panic"]
       ELSE /\ fan.mpc = "range"
            /\ fan' = [fan EXCEPT !.fi[x] = "range",
                                  !.received = Append(@, fan.fiVal[x])]
    /\ UNCHANGED <<pool, bc, cs, rl, pl, rc, dw, df, rt, ro, th>>

\* mutation of FanInExit: every forwarder closes the merged output when it ends
FanInExitClosesOutput(x) ==
    /\ fan.fi[x] = "range"
    /\ fan.outputsClosed[x] > 0
    /\ fan' = [fan EXCEPT !.fi[x] = "done", !.wg = @ - 1, !.outputClosed = @ + 1]
    /\ UNCHANGED <<pool, bc, cs, rl, pl, rc, dw, df, rt, ro, th>>

\* forwarder x: range over its closed input ends; defer wg.Done()
FanInExit(x) ==
    /\ fan.fi[x] = "range"
    /\ fan.outputsClosed[x] > 0
    /\ fan' = [fan EXCEPT !.fi[x] = "done", !.wg = @ - 1]
    /\ UNCHANGED <<pool, bc, cs, rl, pl, rc, dw, df, rt, ro, th>>

\* mutation of FanInClose: close(output) without wg.Wait()
FanInCloseNoWait ==
    /\ fan.cpc = "wait"
    /\ fan' = [fan EXCEPT !.cpc = "done", !.outputClosed = @ + 1]
    /\ UNCHANGED <<pool, bc, cs, rl, pl, rc, dw, df, rt, ro, th>>

\* wg.Wait(); close(output)
FanInClose ==
    /\ fan.cpc = "wait"
    /\ fan.wg = 0
    /\ fan' = [fan EXCEPT !.cpc = "done", !.outputClosed = @ + 1]
    /\ UNCHANGED <<pool, bc, cs, rl, pl, rc, dw, df, rt, ro, th>>

\* main: range over the closed merged output ends
FanMainExit ==
    /\ fan.mpc = "range"
    /\ fan.outputClosed > 0
    /\ fan' = [fan EXCEPT !.mpc = "done"]
    /\ UNCHANGED <<pool, bc, cs, rl, pl, rc, dw, df, rt, ro, th>>

FanNext ==
    \/ FanOutSpawn
    \/ FanInSpawn
    \/ FanInSpawnWait
    \/ FanSpawnSender
    \/ \E x \in FanIdx : FanInputHandoff(x)
    \/ FanCloseInput
    \/ \E x \in FanIdx : FanOutputHandoff(x)
    \/ \E x \in FanIdx : FanOutExit(x)
    \/ \E x \in FanIdx : FanInForward(x)
    \/ \E x \in FanIdx : FanInExit(x)
    \/ FanInClose
    \/ FanMainExit

(***************************************************************************)
(* Broadcast: broadcastExample, subscribe, consume                         *)
(***************************************************************************)

\* bounds of the explored message and subscriber counts
MaxMessages == 3
MaxSubscribers == 3

\* messages := []string{"Hello", "World", "Broadcast", "Pattern"}
Messages == <<"Hello", "World", "Broadcast", "Pattern">>

BcConfigs == [n : 1..MaxMessages, subs : 1..MaxSubscribers]

\* "Subscriber-1", "Subscriber-2", "Subscriber-3"
SubName(x) == <<"Subscriber", x>>

\* fmt.Sprintf("%s received: %s", name, msg)
Format(name, msg) == <<name, "received", msg>>

\* input and the subscriber outputs are unbuffered.  mpc is the main
\* goroutine, spc the sender, sub the subscribe goroutines, con the
\* goroutines running consume; seen is what each consume has printed.
BcStart(c) ==
    [n |-> c.n, subs |-> c.subs,
     mpc |-> "subscribe", i |-> 1,
     spc |-> "unstarted", next |-> 1,
     inputClosed |-> 0,
     sub |-> [x \in 1..c.subs |-> "unstarted"],
     subMsg |-> [x \in 1..c.subs |-> <<>>],
     outClosed |-> [x \in 1..c.subs |-> 0],
     con |-> [x \in 1..c.subs |-> "unstarted"],
     seen |-> [x \in 1..c.subs |-> <<>>],
     wg |-> 0]

BcIdle == [BcStart([n |-> 1, subs |-> 1]) EXCEPT !.mpc = "off"]

BcSubs == 1..bc.subs

\* sub1 := subscribe("Subscriber-1", input); sub2 := ...; sub3 := ...
BcSubscribe ==
    /\ bc.mpc = "subscribe"
    /\ IF bc.i <= bc.subs
       THEN bc' = [bc EXCEPT !.sub[bc.i] = "range", !.i = @ + 1]
       ELSE bc' = [bc EXCEPT !.mpc = "goSend"]
    /\ UNCHANGED <<pool, fan, cs, rl, pl, rc, dw, df, rt, ro, th>>

\* go func() { defer close(input); for _, msg := range messages ... }()
BcSpawnSender ==
    /\ bc.mpc = "goSend"
    /\ bc' = [bc EXCEPT !.spc = "send", !.mpc = "add"]
    /\ UNCHANGED <<pool, fan, cs, rl, pl, rc, dw, df, rt, ro, th>>

\* wg.Add(3)
BcAdd ==
    /\ bc.mpc = "add"
    /\ bc' = [bc EXCEPT !.wg = @ + bc.subs, !.mpc = "goConsume", !.i = 1]
    /\ UNCHANGED <<pool, fan, cs, rl, pl, rc, dw, df, rt, ro, th>>

\* go func() { defer wg.Done(); consume(sub1) }() ...
BcSpawnConsumer ==
    /\ bc.mpc = "goConsume"
    /\ IF bc.i <= bc.subs
       THEN bc' = [bc EXCEPT !.con[bc.i] = "range", !.i = @ + 1]
       ELSE bc' = [bc EXCEPT !.mpc = "wait"]
    /\ UNCHANGED <<pool, fan, cs, rl, pl, rc, dw, df, rt, ro, th>>

\* mutation of BcInputHandoff: the message reaches every waiting subscriber
BcInputHandoffToAll(x) ==
    /\ bc.spc = "send"
    /\ bc.next <= bc.n
    /\ bc.sub[x] = "range"
    /\ bc' = [bc EXCEPT !.next = @ + 1,
                        !.sub = [y \in BcSubs |-> IF bc.sub[y] = "range" THEN "send" ELSE bc.sub[y]],
                        !.subMsg = [y \in BcSubs |->
                                       IF bc.sub[y] = "range"
                                       THEN Format(SubName(y), Messages[bc.next])
                                       ELSE bc.subMsg[y]]]
    /\ UNCHANGED <<pool, fan, cs, rl, pl, rc, dw, df, rt, ro, th>>

\* input <- msg meets `for msg := range input` of subscriber x
BcInputHandoff(x) ==
    /\ bc.spc = "send"
    /\ bc.next <= bc.n
    /\ bc.sub[x] = "range"
    /\ bc' = [bc EXCEPT !.next = @ + 1, !.sub[x] = "send",
                        !.subMsg[x] = Format(SubName(x), Messages[bc.next])]
    /\ UNCHANGED <<pool, fan, cs, rl, pl, rc, dw, df, rt, ro, th>>

\* the sender's loop is over: defer close(input)
BcCloseInput ==
    /\ bc.spc = "send"
    /\ bc.next > bc.n
    /\ bc' = [bc EXCEPT !.inputClosed = @ + 1, !.spc = "done"]
    /\ UNCHANGED <<pool, fan, cs, rl, pl, rc, dw, df, rt, ro, th>>

\* output <- fmt.Sprintf(...) of subscriber x meets `for msg := range ch` of consume
BcOutputHandoff(x) ==
    /\ bc.sub[x] = "send"
    /\ bc.con[x] = "range"
    /\ bc' = [bc EXCEPT !.sub[x] = "range", !.seen[x] = Append(@, bc.subMsg[x])]
    /\ UNCHANGED <<pool, fan, cs, rl, pl, rc, dw, df, rt, ro, th>>

\* mutation of BcSubscriberExit: the subscriber returns without closing output
BcSubscriberExitNoClose(x) ==
    /\ bc.sub[x] = "range"
    /\ bc.inputClosed > 0
    /\ bc' = [bc EXCEPT !.sub[x] = "done"]
    /\ UNCHANGED <<pool, fan, cs, rl, pl, rc, dw, df, rt, ro, th>>

\* subscriber x: range over the closed input ends; defer close(output)
BcSubscriberExit(x) ==
    /\ bc.sub[x] = "range"
    /\ bc.inputClosed > 0
    /\ bc' = [bc EXCEPT !.sub[x] = "done", !.outClosed[x] = @ + 1]
    /\ UNCHANGED <<pool, fan, cs, rl, pl, rc, dw, df, rt, ro, th>>

\* consume returns on its closed channel; defer wg.Done()
BcConsumerExit(x) ==
    /\ bc.con[x] = "range"
    /\ bc.outClosed[x] > 0
    /\ bc' = [bc EXCEPT !.con[x] = "done", !.wg = @ - 1]
    /\ UNCHANGED <<pool, fan, cs, rl, pl, rc, dw, df, rt, ro, th>>

\* wg.Wait(); fmt.Println("All subscribers finished")
BcWait ==
    /\ bc.mpc = "wait"
    /\ bc.wg = 0
    /\ bc' = [bc EXCEPT !.mpc = "done"]
    /\ UNCHANGED <<pool, fan, cs, rl, pl, rc, dw, df, rt, ro, th>>

BcNext ==
    \/ BcSubscribe
    \/ BcSpawnSender
    \/ BcAdd
    \/ BcSpawnConsumer
    \/ \E x \in BcSubs : BcInputHandoff(x)
    \/ BcCloseInput
    \/ \E x \in BcSubs : BcOutputHandoff(x)
    \/ \E x \in BcSubs : BcSubscriberExit(x)
    \/ \E x \in BcSubs : BcConsumerExit(x)
    \/ BcWait

(***************************************************************************)
(* Cancellation: cancellationExample                                       *)
(***************************************************************************)

\* bounds: polling goroutines, fires (sends on done), counted work units
MaxPollers == 2
MaxFires == 2
MaxUnits == 2

CsConfigs == [pollers : 1..MaxPollers, fires : 1..MaxFires]

\* done is unbuffered.  mpc is the goroutine of cancellationExample, w the
\* polling goroutines.  delivered counts the sends on done that a poller has
\* received; units counts the work units a poller has started (it stops
\* counting at MaxUnits); overlap records that a send became pending while
\* the poller was inside a unit of work.
CsStart(c) ==
    [pollers |-> c.pollers, fires |-> c.fires,
     mpc |-> "spawn", i |-> 1,
     w |-> [x \in 1..c.pollers |-> "unstarted"],
     delivered |-> 0,
     units |-> [x \in 1..c.pollers |-> 0],
     overlap |-> [x \in 1..c.pollers |-> FALSE]]

CsIdle == CsStart([pollers |-> 1, fires |-> 1])

CsPollers == 1..cs.pollers

\* go func() { for { select { ... } } }()
CsSpawn ==
    /\ cs.mpc = "spawn"
    /\ IF cs.i <= cs.pollers
       THEN cs' = [cs EXCEPT !.w[cs.i] = "select", !.i = @ + 1]
       ELSE cs' = [cs EXCEPT !.mpc = "sleep"]
    /\ UNCHANGED <<pool, fan, bc, rl, pl, rc, dw, df, rt, ro, th>>

\* time.Sleep(800 * time.Millisecond) is over: main arrives at done <- true
CsRequestFire ==
    /\ cs.mpc = "sleep"
    /\ cs' = [cs EXCEPT !.mpc = "fire",
                        !.overlap = [x \in CsPollers |-> @[x] \/ cs.w[x] = "working"]]
    /\ UNCHANGED <<pool, fan, bc, rl, pl, rc, dw, df, rt, ro, th>>

\* mutation of CsDefault: default is taken although a sender waits on done
CsDefaultAlways(x) ==
    /\ cs.w[x] = "select"
    /\ cs' = [cs EXCEPT !.w[x] = "working",
                        !.units[x] = IF @ < MaxUnits THEN @ + 1 ELSE @]
    /\ UNCHANGED <<pool, fan, bc, rl, pl, rc, dw, df, rt, ro, th>>

\* select: no sender waits on done, so the default case runs: "Working..."
CsDefault(x) ==
    /\ cs.w[x] = "select"
    /\ cs.mpc # "fire"
    /\ cs' = [cs EXCEPT !.w[x] = "working",
                        !.units[x] = IF @ < MaxUnits THEN @ + 1 ELSE @]
    /\ UNCHANGED <<pool, fan, bc, rl, pl, rc, dw, df, rt, ro, th>>

\* time.Sleep(200 * time.Millisecond) is over: next loop iteration
CsWorkDone(x) ==
    /\ cs.w[x] = "working"
    /\ cs' = [cs EXCEPT !.w[x] = "select"]
    /\ UNCHANGED <<pool, fan, bc, rl, pl, rc, dw, df, rt, ro, th>>

\* done <- true meets case <-done of poller x: "Worker cancelled"; return
CsFire(x) ==
    /\ cs.mpc = "fire"
    /\ cs.w[x] = "select"
    /\ cs' = [cs EXCEPT !.w[x] = "returned",
                        !.delivered = @ + 1,
                        !.mpc = IF cs.delivered + 1 < cs.fires THEN "fire" ELSE "cleanup"]
    /\ UNCHANGED <<pool, fan, bc, rl, pl, rc, dw, df, rt, ro, th>>

\* time.Sleep(100 * time.Millisecond); "Cancellation complete"
CsComplete ==
    /\ cs.mpc = "cleanup"
    /\ cs' = [cs EXCEPT !.mpc = "done"]
    /\ UNCHANGED <<pool, fan, bc, rl, pl, rc, dw, df, rt, ro, th>>

CsNext ==
    \/ CsSpawn
    \/ CsRequestFire
    \/ \E x \in CsPollers : CsDefault(x)
    \/ \E x \in CsPollers : CsWorkDone(x)
    \/ \E x \in CsPollers : CsFire(x)
    \/ CsComplete

(***************************************************************************)
(* Rate limiter: rateLimiter and its demo in advancedClosuresExample       *)
(***************************************************************************)

\* bounds: clock ticks per second, last clock value, number of calls,
\* largest capacity
TicksPerSecond == 2
MaxTime == 5
MaxCalls == 10
MaxRequests == 3

\* limiter := rateLimiter(3, 1*time.Second); for i := 0; i < 5; i++
DemoRequests == 3
DemoCalls == 5
DemoDuration == 1 * TicksPerSecond

RlConfigs == [requests : 0..MaxRequests, duration : 0..DemoDuration]

\* tokens, lastReset: the variables captured by the returned closure; now is
\* the monotonic clock read by time.Now(); log records, for every call of the
\* closure, its time, its result and whether it refilled the bucket.
RlStart(c) ==
    [requests |-> c.requests, duration |-> c.duration,
     tokens |-> c.requests, lastReset |-> 0, now |-> 0, log |-> <<>>]

RlIdle == RlStart([requests |-> 0, duration |-> 0])

\* now.Sub(lastReset) >= duration
WindowElapsed == rl.now - rl.lastReset >= rl.duration

\* the clock advances between calls
RlTick ==
    /\ rl.now < MaxTime
    /\ rl' = [rl EXCEPT !.now = @ + 1]
    /\ UNCHANGED <<pool, fan, bc, cs, pl, rc, dw, df, rt, ro, th>>

\* mutation of RlAllowed: if tokens >= 0
RlAllowedOffByOne(tokens) == tokens >= 0

\* if tokens > 0
RlAllowed(tokens) == tokens > 0

\* mutation of RlAcquire: a refill adds the capacity to the unused tokens
RlAcquireAccumulates ==
    /\ Len(rl.log) < MaxCalls
    /\ LET reset == WindowElapsed
           tokens == IF reset THEN rl.tokens + rl.requests ELSE rl.tokens
           lastReset == IF reset THEN rl.now ELSE rl.lastReset
           ok == RlAllowed(tokens)
       IN rl' = [rl EXCEPT !.tokens = IF ok THEN tokens - 1 ELSE tokens,
                           !.lastReset = lastReset,
                           !.log = Append(@, [t |-> rl.now, ok |-> ok, reset |-> reset])]
    /\ UNCHANGED <<pool, fan, bc, cs, pl, rc, dw, df, rt, ro, th>>

\* mutation of RlAcquire: a refill does not record the new window start
RlAcquireKeepsLastReset ==
    /\ Len(rl.log) < MaxCalls
    /\ LET reset == WindowElapsed
           tokens == IF reset THEN rl.requests ELSE rl.tokens
           ok == RlAllowed(tokens)
       IN rl' = [rl EXCEPT !.tokens = IF ok THEN tokens - 1 ELSE tokens,
                           !.log = Append(@, [t |-> rl.now, ok |-> ok, reset |-> reset])]
    /\ UNCHANGED <<pool, fan, bc, cs, pl, rc, dw, df, rt, ro, th>>

\* mutation of RlAcquire: a granted call does not consume a token
RlAcquireNoDecrement ==
    /\ Len(rl.log) < MaxCalls
    /\ LET reset == WindowElapsed
           tokens == IF reset THEN rl.requests ELSE rl.tokens
           lastReset == IF reset THEN rl.now ELSE rl.lastReset
           ok == RlAllowed(tokens)
       IN rl' = [rl EXCEPT !.tokens = tokens,
                           !.lastReset = lastReset,
                           !.log = Append(@, [t |-> rl.now, ok |-> ok, reset |-> reset])]
    /\ UNCHANGED <<pool, fan, bc, cs, pl, rc, dw, df, rt, ro, th>>

\* one call of the closure, under mu.Lock() / defer mu.Unlock()
RlAcquire ==
    /\ Len(rl.log) < MaxCalls
    /\ LET reset == WindowElapsed
           tokens == IF reset THEN rl.requests ELSE rl.tokens
           lastReset == IF reset THEN rl.now ELSE rl.lastReset
           ok == RlAllowed(tokens)
       IN rl' = [rl EXCEPT !.tokens = IF ok THEN tokens - 1 ELSE tokens,
                           !.lastReset = lastReset,
                           !.log = Append(@, [t |-> rl.now, ok |-> ok, reset |-> reset])]
    /\ UNCHANGED <<pool, fan, bc, cs, pl, rc, dw, df, rt, ro, th>>

RlNext ==
    \/ RlTick
    \/ RlAcquire


(***************************************************************************)
(* Rate limiter under concurrent callers: the closure of rateLimiter,      *)
(* statement by statement, with its mutex                                  *)
(***************************************************************************)

\* bounds: concurrent callers, largest capacity, last clock value
MaxTasks == 3
RcMaxRequests == 2
RcMaxTime == 2

RcConfigs == [tasks : 1..MaxTasks, requests : 0..RcMaxRequests, duration : 1..RcMaxTime]

\* tokens, lastReset, mu: the captured variables (mu = 0: unlocked, else the
\* task holding it).  Every task calls the closure once; tpc is its position,
\* tnow its `now`, tok the value it loaded for tokens--, res its result.
\* resets counts the refills.
RcStart(c) ==
    [tasks |-> c.tasks, requests |-> c.requests, duration |-> c.duration,
     tokens |-> c.requests, lastReset |-> 0, mu |-> 0, now |-> 0,
     tpc |-> [t \in 1..c.tasks |-> "call"],
     tnow |-> [t \in 1..c.tasks |-> 0],
     tok |-> [t \in 1..c.tasks |-> 0],
     res |-> [t \in 1..c.tasks |-> "none"],
     resets |-> 0]

RcIdle == [RcStart([tasks |-> 1, requests |-> 0, duration |-> 1]) EXCEPT !.tpc = <<"off">>]

RcTasks == 1..rc.tasks

\* the clock advances
RcTick ==
    /\ rc.now < RcMaxTime
    /\ \E t \in RcTasks : rc.tpc[t] \notin {"done", "off"}
    /\ rc' = [rc EXCEPT !.now = @ + 1]
    /\ UNCHANGED <<pool, fan, bc, cs, rl, pl, dw, df, rt, ro, th>>

\* mutation of RcLock: the closure runs without taking the mutex
RcLockNoMutex(t) ==
    /\ rc.tpc[t] = "call"
    /\ rc' = [rc EXCEPT !.mu = t, !.tpc[t] = "now"]
    /\ UNCHANGED <<pool, fan, bc, cs, rl, pl, dw, df, rt, ro, th>>

\* mu.Lock()
RcLock(t) ==
    /\ rc.tpc[t] = "call"
    /\ rc.mu = 0
    /\ rc' = [rc EXCEPT !.mu = t, !.tpc[t] = "now"]
    /\ UNCHANGED <<pool, fan, bc, cs, rl, pl, dw, df, rt, ro, th>>

\* now := time.Now()
RcNow(t) ==
    /\ rc.tpc[t] = "now"
    /\ rc' = [rc EXCEPT !.tnow[t] = rc.now, !.tpc[t] = "elapsed"]
    /\ UNCHANGED <<pool, fan, bc, cs, rl, pl, dw, df, rt, ro, th>>

\* if now.Sub(lastReset) >= duration { tokens = requests; lastReset = now }
RcRefill(t) ==
    /\ rc.tpc[t] = "elapsed"
    /\ IF rc.tnow[t] - rc.lastReset >= rc.duration
       THEN rc' = [rc EXCEPT !.tokens = rc.requests, !.lastReset = rc.tnow[t],
                             !.resets = @ + 1, !.tpc[t] = "check"]
       ELSE rc' = [rc EXCEPT !.tpc[t] = "check"]
    /\ UNCHANGED <<pool, fan, bc, cs, rl, pl, dw, df, rt, ro, th>>

\* mutation of RcCheck: a call that finds no token waits for one
RcCheckWaitsForToken(t) ==
    /\ rc.tpc[t] = "check"
    /\ rc.tokens > 0
    /\ rc' = [rc EXCEPT !.tpc[t] = "load"]
    /\ UNCHANGED <<pool, fan, bc, cs, rl, pl, dw, df, rt, ro, th>>

\* if tokens > 0 { ... } return false
RcCheck(t) ==
    /\ rc.tpc[t] = "check"
    /\ IF rc.tokens > 0
       THEN rc' = [rc EXCEPT !.tpc[t] = "load"]
       ELSE rc' = [rc EXCEPT !.tpc[t] = "unlock", !.res[t] = "false"]
    /\ UNCHANGED <<pool, fan, bc, cs, rl, pl, dw, df, rt, ro, th>>

\* tokens--: the load
RcLoad(t) ==
    /\ rc.tpc[t] = "load"
    /\ rc' = [rc EXCEPT !.tok[t] = rc.tokens, !.tpc[t] = "store"]
    /\ UNCHANGED <<pool, fan, bc, cs, rl, pl, dw, df, rt, ro, th>>

\* mutation of RcStore: a granted call takes two tokens
RcStoreTakesTwo(t) ==
    /\ rc.tpc[t] = "store"
    /\ rc' = [rc EXCEPT !.tokens = rc.tok[t] - 2, !.tpc[t] = "unlock", !.res[t] = "true"]
    /\ UNCHANGED <<pool, fan, bc, cs, rl, pl, dw, df, rt, ro, th>>

\* tokens--: the store; return true
RcStore(t) ==
    /\ rc.tpc[t] = "store"
    /\ rc' = [rc EXCEPT !.tokens = rc.tok[t] - 1, !.tpc[t] = "unlock", !.res[t] = "true"]
    /\ UNCHANGED <<pool, fan, bc, cs, rl, pl, dw, df, rt, ro, th>>

\* defer mu.Unlock()
RcUnlock(t) ==
    /\ rc.tpc[t] = "unlock"
    /\ rc' = [rc EXCEPT !.mu = 0, !.tpc[t] = "done"]
    /\ UNCHANGED <<pool, fan, bc, cs, rl, pl, dw, df, rt, ro, th>>

RcNext ==
    \/ RcTick
    \/ \E t \in RcTasks : RcLock(t)
    \/ \E t \in RcTasks : RcNow(t)
    \/ \E t \in RcTasks : RcRefill(t)
    \/ \E t \in RcTasks : RcCheck(t)
    \/ \E t \in RcTasks : RcLoad(t)
    \/ \E t \in RcTasks : RcStore(t)
    \/ \E t \in RcTasks : RcUnlock(t)

(***************************************************************************)
(* Pipeline: pipelineExample, generate, square, filterOdd; the stage       *)
(* template of square with other transforms; the closure pipeline          *)
(***************************************************************************)

\* bounds of the explored inputs: largest number, longest input
MaxNum == 3
MaxLen == 3

\* numbers := generate(1, 2, 3, 4, 5)
DemoNums == <<1, 2, 3, 4, 5>>

\* the stages of pipelineExample, and a chain of three transforming stages
DemoStages == <<"square", "filterOdd">>
ArithStages == <<"addOne", "double", "subThree">>

PlInputs == UNION {[1..len -> 1..MaxNum] : len \in 0..MaxLen} \cup {DemoNums}

PlConfigs == [nums : PlInputs, stages : {DemoStages, ArithStages}]

\* Go's n % 2 (the sign follows the dividend)
GoMod2(n) == IF n >= 0 THEN n % 2 ELSE 0 - ((0 - n) % 2)

\* if n%2 == 1
IsOdd(n) == GoMod2(n) = 1

\* a stage forwards every value, filterOdd only the odd ones
Passes(kind, n) == kind # "filterOdd" \/ IsOdd(n)

\* out <- n * n and the same statement with another transform
Apply(kind, n) ==
    CASE kind = "square" -> n * n
      [] kind = "filterOdd" -> n
      [] kind = "addOne" -> n + 1
      [] kind = "double" -> n * 2
      [] kind = "subThree" -> n - 3

RECURSIVE PipelineReversed(_, _)
\* mutation of Pipeline: the functions are applied last to first
PipelineReversed(funcs, x) ==
    IF funcs = <<>> THEN x
    ELSE Apply(Head(funcs), PipelineReversed(Tail(funcs), x))

RECURSIVE Pipeline(_, _)
\* pipeline(funcs...)(x): result := x; for _, fn := range funcs { result = fn(result) }
Pipeline(funcs, x) ==
    IF funcs = <<>> THEN x
    ELSE Pipeline(Tail(funcs), Apply(Head(funcs), x))

\* every channel is unbuffered; channel 0 is the out of generate, channel s
\* the out of stage s.  gpc, idx: the goroutine of generate; st, val: the
\* stage goroutines; mpc: pipelineExample; received: what its loop printed.
PlStart(c) ==
    [nums |-> c.nums, stages |-> c.stages,
     mpc |-> "spawn", i |-> 0,
     gpc |-> "unstarted", idx |-> 1,
     st |-> [x \in 1..Len(c.stages) |-> "unstarted"],
     val |-> [x \in 1..Len(c.stages) |-> 0],
     closed |-> [x \in 0..Len(c.stages) |-> 0],
     received |-> <<>>]

PlIdle == [PlStart([nums |-> <<>>, stages |-> DemoStages]) EXCEPT !.mpc = "off"]

PlLast == Len(pl.stages)

\* numbers := generate(...); squares := square(numbers); odds := filterOdd(squares)
PlSpawn ==
    /\ pl.mpc = "spawn"
    /\ IF pl.i = 0
       THEN pl' = [pl EXCEPT !.gpc = "send", !.i = 1]
       ELSE IF pl.i <= PlLast
            THEN pl' = [pl EXCEPT !.st[pl.i] = "range", !.i = @ + 1]
            ELSE pl' = [pl EXCEPT !.mpc = "range"]
    /\ UNCHANGED <<pool, fan, bc, cs, rl, rc, dw, df, rt, ro, th>>

\* the sender of channel c is at its send
PlSenderReady(c) ==
    IF c = 0 THEN pl.gpc = "send" /\ pl.idx <= Len(pl.nums) ELSE pl.st[c] = "send"

\* the value the sender of channel c is sending
PlSent(c) == IF c = 0 THEN pl.nums[pl.idx] ELSE pl.val[c]

\* the sender of channel c after its send: generate moves on, a stage ranges again
PlAfterSend(p, c) ==
    IF c = 0 THEN [p EXCEPT !.idx = @ + 1] ELSE [p EXCEPT !.st[c] = "range"]

\* mutation of PlHandoff: filterOdd lets the even values through
PlHandoffKeepsEven(c) ==
    /\ PlSenderReady(c)
    /\ IF c = PlLast
       THEN /\ pl.mpc = "range"
            /\ pl' = [PlAfterSend(pl, c) EXCEPT !.received = Append(@, PlSent(c))]
       ELSE /\ pl.st[c + 1] = "range"
            /\ IF pl.stages[c + 1] # "filterOdd" \/ ~IsOdd(PlSent(c))
               THEN pl' = [PlAfterSend(pl, c) EXCEPT
                              !.st[c + 1] = "send",
                              !.val[c + 1] = Apply(pl.stages[c + 1], PlSent(c))]
               ELSE pl' = PlAfterSend(pl, c)
    /\ UNCHANGED <<pool, fan, bc, cs, rl, rc, dw, df, rt, ro, th>>

\* mutation of PlHandoff: a stage takes its next input while still at its send
PlHandoffOverwrites(c) ==
    /\ PlSenderReady(c)
    /\ IF c = PlLast
       THEN /\ pl.mpc = "range"
            /\ pl' = [PlAfterSend(pl, c) EXCEPT !.received = Append(@, PlSent(c))]
       ELSE /\ pl.st[c + 1] \in {"range", "send"}
            /\ IF Passes(pl.stages[c + 1], PlSent(c))
               THEN pl' = [PlAfterSend(pl, c) EXCEPT
                              !.st[c + 1] = "send",
                              !.val[c + 1] = Apply(pl.stages[c + 1], PlSent(c))]
               ELSE pl' = PlAfterSend(pl, c)
    /\ UNCHANGED <<pool, fan, bc, cs, rl, rc, dw, df, rt, ro, th>>

\* out <- v on channel c meets the range loop of the next stage, or of
\* pipelineExample behind the last stage
PlHandoff(c) ==
    /\ PlSenderReady(c)
    /\ IF c = PlLast
       THEN /\ pl.mpc = "range"
            /\ pl' = [PlAfterSend(pl, c) EXCEPT !.received = Append(@, PlSent(c))]
       ELSE /\ pl.st[c + 1] = "range"
            /\ IF Passes(pl.stages[c + 1], PlSent(c))
               THEN pl' = [PlAfterSend(pl, c) EXCEPT
                              !.st[c + 1] = "send",
                              !.val[c + 1] = Apply(pl.stages[c + 1], PlSent(c))]
               ELSE pl' = PlAfterSend(pl, c)
    /\ UNCHANGED <<pool, fan, bc, cs, rl, rc, dw, df, rt, ro, th>>

\* mutation of PlClose: a stage returns without closing its out
PlCloseForgotten(c) ==
    /\ IF c = 0
       THEN /\ pl.gpc = "send"
            /\ pl.idx > Len(pl.nums)
            /\ pl' = [pl EXCEPT !.gpc = "done", !.closed[0] = @ + 1]
       ELSE /\ pl.st[c] = "range"
            /\ pl.closed[c - 1] > 0
            /\ pl' = [pl EXCEPT !.st[c] = "done"]
    /\ UNCHANGED <<pool, fan, bc, cs, rl, rc, dw, df, rt, ro, th>>

\* the loop of the sender of channel c is over: defer close(out)
PlClose(c) ==
    /\ IF c = 0
       THEN /\ pl.gpc = "send"
            /\ pl.idx > Len(pl.nums)
            /\ pl' = [pl EXCEPT !.gpc = "done", !.closed[0] = @ + 1]
       ELSE /\ pl.st[c] = "range"
            /\ pl.closed[c - 1] > 0
            /\ pl' = [pl EXCEPT !.st[c] = "done", !.closed[c] = @ + 1]
    /\ UNCHANGED <<pool, fan, bc, cs, rl, rc, dw, df, rt, ro, th>>

\* for result := range odds ends on the closed channel
PlMainExit ==
    /\ pl.mpc = "range"
    /\ pl.closed[PlLast] > 0
    /\ pl' = [pl EXCEPT !.mpc = "done"]
    /\ UNCHANGED <<pool, fan, bc, cs, rl, rc, dw, df, rt, ro, th>>

PlNext ==
    \/ PlSpawn
    \/ \E c \in 0..PlLast : PlHandoff(c)
    \/ \E c \in 0..PlLast : PlClose(c)
    \/ PlMainExit

(***************************************************************************)
(* defer wg.Done(): whyDeferDone, deferDoneWithPanic,                      *)
(* deferDoneWithEarlyReturn, waitGroupWithDefer, basicWaitGroup            *)
(***************************************************************************)

\* bound of the explored number of workers
MaxDeferWorkers == 2

\* the bodies of the worker goroutines, statement by statement
\* whyDeferDone, basicWaitGroup: the body runs to its end
BodyNormal == <<"deferDone", "work", "work">>
\* deferDoneWithEarlyReturn, waitGroupWithDefer: if true { return }
BodyEarlyReturn == <<"deferDone", "work", "return", "work">>
\* deferDoneWithPanic: defer wg.Done(); defer func() { recover() }(); panic(...)
BodyPanicRecovered == <<"deferDone", "deferRecover", "work", "panic">>

DeferBodies == {BodyNormal, BodyEarlyReturn, BodyPanicRecovered}

\* comparisonWithoutDefer as coded (both conditions false): wg.Done() at the end
BodyManualDone == <<"work", "work", "work", "done", "work">>
\* waitGroupWithoutDefer: if true { wg.Done(); return }
BodyManualEarlyDone == <<"work", "done", "return", "work", "done">>
\* comparisonWithoutDefer when its error condition holds: return, Done forgotten
BodyForgotDone == <<"work", "return", "work", "work", "done", "work">>
\* waitGroupCommonMistakes, mistake 1: wg.Add(1) inside the goroutine
BodyInnerAdd == <<"add", "deferDone", "work">>
\* multipleWorkers: case 1 panics, case 2 returns early, default completes
BodyWorkerCase1 == <<"deferDone", "work", "panic">>
BodyWorkerCase2 == <<"deferDone", "work", "work", "return">>
BodyWorkerDefault == <<"deferDone", "work", "work", "work">>

\* multipleWorkers: for i := 0; i < 5; i++ { wg.Add(1); go func(id int) {...}(i) }
DemoMultipleWorkers ==
    <<BodyWorkerDefault, BodyWorkerCase1, BodyWorkerCase2, BodyWorkerDefault, BodyWorkerDefault>>

WgBodies ==
    DeferBodies \cup {BodyManualDone, BodyManualEarlyDone, BodyForgotDone,
                      BodyInnerAdd, BodyWorkerCase1}

DwConfigs == UNION {[1..n -> DeferBodies] : n \in 1..MaxDeferWorkers}

\* mpc, i: the orchestrator and its loop index; wg: the counter; for worker
\* t, pc is the next statement of its body, mode its way of running
\* ("run", unwinding after "return" or in "panic", "exited"), stack its
\* deferred calls (last registered first), dones the Done calls it made.
DwStart(bodies) ==
    [bodies |-> bodies, n |-> Len(bodies),
     mpc |-> "add", i |-> 1, wg |-> 0,
     pc |-> [t \in 1..Len(bodies) |-> 1],
     mode |-> [t \in 1..Len(bodies) |-> "unstarted"],
     stack |-> [t \in 1..Len(bodies) |-> <<>>],
     dones |-> [t \in 1..Len(bodies) |-> 0],
     parentDefers |-> FALSE, parentStack |-> <<>>,
     errors |-> MakeChan(0), sends |-> [t \in 1..Len(bodies) |-> 0], errs |-> <<>>]

\* the same when the orchestrator defers a recover before wg.Wait()
DwStartParentRecover(bodies) == [DwStart(bodies) EXCEPT !.parentDefers = TRUE]

WgConfigs ==
    {DwStart(b) : b \in UNION {[1..n -> WgBodies] : n \in 1..MaxDeferWorkers}}
    \cup {DwStartParentRecover(DemoMultipleWorkers)}

DwIdle == [DwStart(<<BodyNormal>>) EXCEPT !.mpc = "off"]

DwWorkers == 1..dw.n

\* the statement worker t is at ("end": the closing brace of its body)
DwStmt(t) ==
    IF dw.pc[t] <= Len(dw.bodies[t]) THEN dw.bodies[t][dw.pc[t]] ELSE "end"

\* wg.Add(1) before the launch (not where the goroutine itself calls Add),
\* or the loop is over
DwAdd ==
    /\ dw.mpc = "add"
    /\ IF dw.i <= dw.n
       THEN IF Head(dw.bodies[dw.i]) = "add"
            THEN dw' = [dw EXCEPT !.mpc = "go"]
            ELSE dw' = [dw EXCEPT !.wg = @ + 1, !.mpc = "go"]
       ELSE IF dw.parentDefers
            THEN dw' = [dw EXCEPT !.mpc = "defer"]
            ELSE dw' = [dw EXCEPT !.mpc = "wait"]
    /\ UNCHANGED <<pool, fan, bc, cs, rl, pl, rc, df, rt, ro, th>>

\* go func() { ... }()
DwGo ==
    /\ dw.mpc = "go"
    /\ dw' = [dw EXCEPT !.mode[dw.i] = "run", !.i = @ + 1, !.mpc = "add"]
    /\ UNCHANGED <<pool, fan, bc, cs, rl, pl, rc, df, rt, ro, th>>

\* mutation of DwWait: Wait returns whatever the counter is
DwWaitNoBlock ==
    /\ dw.mpc = "wait"
    /\ dw' = [dw EXCEPT !.mpc = "done"]
    /\ UNCHANGED <<pool, fan, bc, cs, rl, pl, rc, df, rt, ro, th>>

\* wg.Wait()
DwWait ==
    /\ dw.mpc = "wait"
    /\ dw.wg = 0
    /\ dw' = [dw EXCEPT !.mpc = "done"]
    /\ UNCHANGED <<pool, fan, bc, cs, rl, pl, rc, df, rt, ro, th>>

\* defer wg.Done() / defer func() { recover() }(): registered, not executed
DwDefer(t) ==
    /\ dw.mode[t] = "run"
    /\ DwStmt(t) \in {"deferDone", "deferRecover"}
    /\ dw' = [dw EXCEPT !.stack[t] = <<DwStmt(t)>> \o @, !.pc[t] = @ + 1]
    /\ UNCHANGED <<pool, fan, bc, cs, rl, pl, rc, df, rt, ro, th>>

\* fmt.Println(...), time.Sleep(...)
DwWork(t) ==
    /\ dw.mode[t] = "run"
    /\ DwStmt(t) = "work"
    /\ dw' = [dw EXCEPT !.pc[t] = @ + 1]
    /\ UNCHANGED <<pool, fan, bc, cs, rl, pl, rc, df, rt, ro, th>>

\* return, or the end of the body: the deferred calls run next
DwReturn(t) ==
    /\ dw.mode[t] = "run"
    /\ DwStmt(t) \in {"return", "end"}
    /\ dw' = [dw EXCEPT !.mode[t] = "return"]
    /\ UNCHANGED <<pool, fan, bc, cs, rl, pl, rc, df, rt, ro, th>>

\* mutation of DwPanic: the panic ends the goroutine, no deferred call runs
DwPanicSkipsDeferred(t) ==
    /\ dw.mode[t] = "run"
    /\ DwStmt(t) = "panic"
    /\ dw' = [dw EXCEPT !.mode[t] = "exited", !.stack[t] = <<>>]
    /\ UNCHANGED <<pool, fan, bc, cs, rl, pl, rc, df, rt, ro, th>>

\* panic("something went wrong!"): the deferred calls run next, panicking
DwPanic(t) ==
    /\ dw.mode[t] = "run"
    /\ DwStmt(t) = "panic"
    /\ dw' = [dw EXCEPT !.mode[t] = "panic"]
    /\ UNCHANGED <<pool, fan, bc, cs, rl, pl, rc, df, rt, ro, th>>

\* the deferred call registered last runs: wg.Done() decrements the counter;
\* recover() ends a panic, after which the function returns normally
DwRunDeferred(t) ==
    /\ dw.mode[t] \in {"return", "panic"}
    /\ dw.stack[t] # <<>>
    /\ IF Head(dw.stack[t]) = "deferDone"
       THEN dw' = [dw EXCEPT !.stack[t] = Tail(@), !.wg = @ - 1, !.dones[t] = @ + 1]
       ELSE dw' = [dw EXCEPT !.stack[t] = Tail(@), !.mode[t] = "return"]
    /\ UNCHANGED <<pool, fan, bc, cs, rl, pl, rc, df, rt, ro, th>>

\* mutation of DwExit: a goroutine that ends without Done has it called for it
DwExitCallsDone(t) ==
    /\ dw.mode[t] = "return"
    /\ dw.stack[t] = <<>>
    /\ dw' = [dw EXCEPT !.mode[t] = "exited", !.wg = @ - (1 - dw.dones[t])]
    /\ UNCHANGED <<pool, fan, bc, cs, rl, pl, rc, df, rt, ro, th>>

\* all deferred calls have run and no panic is left: the goroutine ends
DwExit(t) ==
    /\ dw.mode[t] = "return"
    /\ dw.stack[t] = <<>>
    /\ dw' = [dw EXCEPT !.mode[t] = "exited"]
    /\ UNCHANGED <<pool, fan, bc, cs, rl, pl, rc, df, rt, ro, th>>

\* the orchestrator: defer func() { if r := recover(); r != nil {...} }()
DwParentDefer ==
    /\ dw.mpc = "defer"
    /\ dw' = [dw EXCEPT !.parentStack = <<"deferRecover">> \o @, !.mpc = "wait"]
    /\ UNCHANGED <<pool, fan, bc, cs, rl, pl, rc, df, rt, ro, th>>

\* wg.Done() as a statement of the body
DwDone(t) ==
    /\ dw.mpc # "crashed"
    /\ dw.mode[t] = "run"
    /\ DwStmt(t) = "done"
    /\ dw' = [dw EXCEPT !.wg = @ - 1, !.dones[t] = @ + 1, !.pc[t] = @ + 1]
    /\ UNCHANGED <<pool, fan, bc, cs, rl, pl, rc, df, rt, ro, th>>

\* wg.Add(1) as a statement of the body
DwInnerAdd(t) ==
    /\ dw.mpc # "crashed"
    /\ dw.mode[t] = "run"
    /\ DwStmt(t) = "add"
    /\ dw' = [dw EXCEPT !.wg = @ + 1, !.pc[t] = @ + 1]
    /\ UNCHANGED <<pool, fan, bc, cs, rl, pl, rc, df, rt, ro, th>>

\* all deferred calls of the goroutine have run and its panic is not
\* recovered: the Go runtime ends the program.  A recover deferred by the
\* orchestrator is on another goroutine's stack and is not run.
DwCrash(t) ==
    /\ dw.mpc # "crashed"
    /\ dw.mode[t] = "panic"
    /\ dw.stack[t] = <<>>
    /\ dw' = [dw EXCEPT !.mode[t] = "crashed", !.mpc = "crashed"]
    /\ UNCHANGED <<pool, fan, bc, cs, rl, pl, rc, df, rt, ro, th>>

DwNext ==
    \/ DwAdd
    \/ DwGo
    \/ DwWait
    \/ \E t \in DwWorkers : DwDefer(t)
    \/ \E t \in DwWorkers : DwWork(t)
    \/ \E t \in DwWorkers : DwReturn(t)
    \/ \E t \in DwWorkers : DwPanic(t)
    \/ \E t \in DwWorkers : DwRunDeferred(t)
    \/ \E t \in DwWorkers : DwExit(t)

\* the same with bodies that call Done and Add themselves, and with panics
\* nobody recovers; nothing runs once the program has been ended
WgNext ==
    \/ dw.mpc # "crashed" /\ DwNext
    \/ DwParentDefer
    \/ \E t \in DwWorkers : DwDone(t)
    \/ \E t \in DwWorkers : DwInnerAdd(t)
    \/ \E t \in DwWorkers : DwCrash(t)

\* waitGroupWithError: the goroutine with id == 1 reports an error and
\* returns; the others print and report nil
BodyErrFail == <<"deferDone", "sendErr", "return", "work", "sendNil">>
BodyErrOk == <<"deferDone", "work", "sendNil">>

\* bound: goroutines of waitGroupWithError
MaxErrWorkers == 3

\* for i := 0; i < 3; i++ { ... go func(id int) {...}(i) }: worker t has id t - 1
ErrBodies(n) == [t \in 1..n |-> IF t - 1 = 1 THEN BodyErrFail ELSE BodyErrOk]

\* errors := make(chan error, 3), and the same workers on a smaller buffer
ErrConfigs ==
    {[DwStart(ErrBodies(n)) EXCEPT !.errors = MakeChan(c)] :
        n \in 1..MaxErrWorkers, c \in 1..MaxErrWorkers}

\* fmt.Errorf("worker %d failed", id); nil is the empty tuple
Errorf(id) == <<"worker", id, "failed">>

\* mutation of DwSend: the failing goroutine returns without reporting
DwSendSkipsError(t) ==
    /\ dw.mode[t] = "run"
    /\ DwStmt(t) \in {"sendErr", "sendNil"}
    /\ dw.errors.closed = 0
    /\ CanSend(dw.errors)
    /\ IF DwStmt(t) = "sendErr"
       THEN dw' = [dw EXCEPT !.pc[t] = @ + 1]
       ELSE dw' = [dw EXCEPT !.errors.buf = Append(@, <<>>),
                             !.sends[t] = @ + 1, !.pc[t] = @ + 1]
    /\ UNCHANGED <<pool, fan, bc, cs, rl, pl, rc, df, rt, ro, th>>

\* errors <- fmt.Errorf("worker %d failed", id) / errors <- nil
DwSend(t) ==
    /\ dw.mode[t] = "run"
    /\ DwStmt(t) \in {"sendErr", "sendNil"}
    /\ IF dw.errors.closed > 0
       THEN dw' = [dw EXCEPT !.mode[t] = "panic"]
       ELSE /\ CanSend(dw.errors)
            /\ dw' = [dw EXCEPT
                         !.errors.buf = Append(@, IF DwStmt(t) = "sendErr"
                                                  THEN Errorf(t - 1) ELSE <<>>),
                         !.sends[t] = @ + 1, !.pc[t] = @ + 1]
    /\ UNCHANGED <<pool, fan, bc, cs, rl, pl, rc, df, rt, ro, th>>

\* close(errors), after wg.Wait() has returned
DwCloseErrors ==
    /\ dw.mpc = "done"
    /\ dw' = [dw EXCEPT !.errors.closed = @ + 1, !.mpc = "collect"]
    /\ UNCHANGED <<pool, fan, bc, cs, rl, pl, rc, df, rt, ro, th>>

\* for err := range errors { if err != nil { fmt.Printf(...) } }
DwCollect ==
    /\ dw.mpc = "collect"
    /\ \/ /\ CanRecv(dw.errors)
          /\ dw' = [dw EXCEPT !.errs = Append(@, Head(dw.errors.buf)),
                              !.errors.buf = Tail(@)]
       \/ /\ Drained(dw.errors)
          /\ dw' = [dw EXCEPT !.mpc = "finished"]
    /\ UNCHANGED <<pool, fan, bc, cs, rl, pl, rc, df, rt, ro, th>>

\* waitGroupWithError: its statements only (no panic, no recover)
ErrNext ==
    \/ DwAdd
    \/ DwGo
    \/ DwWait
    \/ DwCloseErrors
    \/ DwCollect
    \/ \E t \in DwWorkers : DwDefer(t)
    \/ \E t \in DwWorkers : DwWork(t)
    \/ \E t \in DwWorkers : DwSend(t)
    \/ \E t \in DwWorkers : DwReturn(t)
    \/ \E t \in DwWorkers : DwRunDeferred(t)
    \/ \E t \in DwWorkers : DwExit(t)


(***************************************************************************)
(* Deferred calls: defer.go (deferOrder, deferWithArguments,               *)
(* deferWithPointers), nested-defer.go                                     *)
(***************************************************************************)

\* bound of the explored number of defer statements in a flat function
MaxDefers == 3

\* the values x takes in defer.go and nested-defer.go
XValues == {1, 10, 20, 100}

\* the statements of a function body
Println(text) == [op |-> "println", text |-> text]
PrintfX(label) == [op |-> "printfx", label |-> label]
SetX(v) == [op |-> "set", val |-> v]
DeferPrintln(text) == [op |-> "deferPrintln", text |-> text]
DeferPrintfX(label) == [op |-> "deferPrintfx", label |-> label]
DeferFunc(body) == [op |-> "deferFunc", body |-> body]

Ordinals == <<"first", "second", "third", "fourth">>

\* deferOrder, README example(): k defer statements and then the work
FlatBody(k) == [j \in 1..k |-> DeferPrintln(Ordinals[j])] \o <<Println("work")>>

\* complexExample, simpleNestedDefer
ComplexBody ==
    <<DeferPrintln("A"),
      DeferFunc(<<DeferPrintln("B"), DeferPrintln("C")>>),
      DeferPrintln("D"),
      Println("work")>>

\* impossibleWithFlatDefer
ImpossibleBody ==
    <<DeferPrintln("1"),
      DeferFunc(<<DeferPrintln("2"), Println("3"), DeferPrintln("4")>>),
      DeferPrintln("5"),
      Println("6")>>

\* multiLevelNesting
MultiLevelBody ==
    <<DeferPrintln("Level 1 - A"),
      DeferFunc(<<DeferPrintln("Level 2 - A"),
                  DeferFunc(<<DeferPrintln("Level 3 - A"), DeferPrintln("Level 3 - B")>>),
                  DeferPrintln("Level 2 - B")>>),
      DeferPrintln("Level 1 - B"),
      Println("main work")>>

\* deferWithArguments: defer fmt.Printf("Deferred: x = %d\n", x); x = 20; ...
ArgumentsBody(x1) == <<DeferPrintfX("Deferred"), SetX(x1), PrintfX("Current")>>

\* deferWithPointers: a deferred closure reading x, a deferred Printf of x
PointersBody(x1) ==
    <<DeferFunc(<<PrintfX("Deferred (closure)")>>),
      DeferPrintfX("Deferred (direct)"),
      SetX(x1),
      PrintfX("Current")>>

\* nestedDeferWithParameters
ParametersBody(x1, x2) ==
    <<DeferPrintfX("Outer defer"),
      DeferFunc(<<DeferPrintfX("Inner defer"), SetX(x2)>>),
      SetX(x1),
      PrintfX("Main")>>

DfPrograms ==
    {[name |-> "deferOrder", body |-> FlatBody(k), x0 |-> 0, x1 |-> 0, x2 |-> 0] :
        k \in 0..MaxDefers}
    \cup {[name |-> "complexExample", body |-> ComplexBody, x0 |-> 0, x1 |-> 0, x2 |-> 0],
          [name |-> "impossibleWithFlatDefer", body |-> ImpossibleBody,
           x0 |-> 0, x1 |-> 0, x2 |-> 0],
          [name |-> "multiLevelNesting", body |-> MultiLevelBody,
           x0 |-> 0, x1 |-> 0, x2 |-> 0]}
    \cup {[name |-> "deferWithArguments", body |-> ArgumentsBody(b),
           x0 |-> a, x1 |-> b, x2 |-> 0] : a, b \in XValues}
    \cup {[name |-> "deferWithPointers", body |-> PointersBody(b),
           x0 |-> a, x1 |-> b, x2 |-> 0] : a, b \in XValues}
    \cup {[name |-> "nestedDeferWithParameters", body |-> ParametersBody(b, c),
           x0 |-> a, x1 |-> b, x2 |-> c] : a, b, c \in XValues}

\* a function call in progress: its body, its next statement, its deferred
\* calls (last registered first)
Frame(body) == [body |-> body, pc |-> 1, defers |-> <<>>]

\* frames: the calls in progress, innermost first; x: the variable the
\* closures share; out: the lines printed, a string for Println and
\* <<label, value>> for Printf
DfStart(p) ==
    [name |-> p.name, body |-> p.body, x0 |-> p.x0, x1 |-> p.x1, x2 |-> p.x2,
     frames |-> <<Frame(p.body)>>, x |-> p.x0, out |-> <<>>, mpc |-> "run"]

DfIdle == [DfStart([name |-> "none", body |-> <<>>, x0 |-> 0, x1 |-> 0, x2 |-> 0])
              EXCEPT !.mpc = "off", !.frames = <<>>]

DfTop == Head(df.frames)

\* the innermost call is at a statement of its body
DfAtStmt == df.mpc = "run" /\ df.frames # <<>> /\ DfTop.pc <= Len(DfTop.body)

DfStmt == DfTop.body[DfTop.pc]

\* fmt.Println("..."), fmt.Printf("...%d", x)
DfPrint ==
    /\ DfAtStmt
    /\ DfStmt.op \in {"println", "printfx"}
    /\ df' = [df EXCEPT !.frames[1].pc = @ + 1,
                        !.out = Append(@, IF DfStmt.op = "println"
                                          THEN DfStmt.text
                                          ELSE <<DfStmt.label, df.x>>)]
    /\ UNCHANGED <<pool, fan, bc, cs, rl, pl, rc, dw, rt, ro, th>>

\* x = 20
DfSet ==
    /\ DfAtStmt
    /\ DfStmt.op = "set"
    /\ df' = [df EXCEPT !.frames[1].pc = @ + 1, !.x = DfStmt.val]
    /\ UNCHANGED <<pool, fan, bc, cs, rl, pl, rc, dw, rt, ro, th>>

\* the call a defer statement registers: the arguments are evaluated now
DfRegistered(stmt) ==
    CASE stmt.op = "deferPrintln" -> [kind |-> "println", text |-> stmt.text]
      [] stmt.op = "deferPrintfx" -> [kind |-> "printf", text |-> <<stmt.label, df.x>>]
      [] stmt.op = "deferFunc" -> [kind |-> "func", body |-> stmt.body]

\* defer ...: registered, not executed
DfDefer ==
    /\ DfAtStmt
    /\ DfStmt.op \in {"deferPrintln", "deferPrintfx", "deferFunc"}
    /\ df' = [df EXCEPT !.frames[1].pc = @ + 1,
                        !.frames[1].defers = <<DfRegistered(DfStmt)>> \o @]
    /\ UNCHANGED <<pool, fan, bc, cs, rl, pl, rc, dw, rt, ro, th>>

\* the deferred call d of the innermost frame runs: a print prints, an
\* anonymous function becomes the innermost call
DfRun(d, rest) ==
    IF d.kind = "func"
    THEN [df EXCEPT !.frames = <<Frame(d.body)>> \o [@ EXCEPT ![1].defers = rest]]
    ELSE [df EXCEPT !.frames[1].defers = rest, !.out = Append(@, d.text)]

\* mutation of DfRunDeferred: the call registered first runs first
DfRunDeferredOldestFirst ==
    /\ df.mpc = "run" /\ df.frames # <<>>
    /\ DfTop.pc > Len(DfTop.body)
    /\ DfTop.defers # <<>>
    /\ df' = DfRun(DfTop.defers[Len(DfTop.defers)],
                   SubSeq(DfTop.defers, 1, Len(DfTop.defers) - 1))
    /\ UNCHANGED <<pool, fan, bc, cs, rl, pl, rc, dw, rt, ro, th>>

\* the body of the innermost call is over: its deferred call registered last runs
DfRunDeferred ==
    /\ df.mpc = "run" /\ df.frames # <<>>
    /\ DfTop.pc > Len(DfTop.body)
    /\ DfTop.defers # <<>>
    /\ df' = DfRun(Head(DfTop.defers), Tail(DfTop.defers))
    /\ UNCHANGED <<pool, fan, bc, cs, rl, pl, rc, dw, rt, ro, th>>

\* the innermost call has run all its deferred calls: it returns
DfReturn ==
    /\ df.mpc = "run" /\ df.frames # <<>>
    /\ DfTop.pc > Len(DfTop.body)
    /\ DfTop.defers = <<>>
    /\ df' = [df EXCEPT !.frames = Tail(@),
                        !.mpc = IF Len(df.frames) = 1 THEN "done" ELSE "run"]
    /\ UNCHANGED <<pool, fan, bc, cs, rl, pl, rc, dw, rt, ro, th>>

DfNext ==
    \/ DfPrint
    \/ DfSet
    \/ DfDefer
    \/ DfRunDeferred
    \/ DfReturn

(***************************************************************************)
(* Retry with exponential backoff: retryWithBackoff                        *)
(***************************************************************************)

\* bound: largest maxAttempts
MaxAttempts == 4

\* the errors an operation may return; nil is the empty tuple, an error the
\* tuple of its parts, so that a wrapped error contains the error it wraps
OpErrors == {<<"simulated failure">>, <<"connection refused">>}

\* backoff := 100 * time.Millisecond
InitialBackoff == 100

\* fmt.Errorf("all %d attempts failed: %w", maxAttempts, lastErr)
AllAttemptsFailed(maxAttempts, lastErr) == <<"all attempts failed", maxAttempts, lastErr>>

\* retry := retryWithBackoff(m); retry(operation): the locals of the call.
\* calls lists what each invocation of operation returned, waits the sleeps.
RtStart(m) ==
    [maxAttempts |-> m, pc |-> "loop", attempt |-> 1, backoff |-> InitialBackoff,
     lastErr |-> <<>>, calls |-> <<>>, waits |-> <<>>, result |-> <<>>]

RtIdle == [RtStart(0) EXCEPT !.pc = "off"]

\* for attempt := 1; attempt <= maxAttempts; ...; after the loop: return fmt.Errorf(...)
RtLoop ==
    /\ rt.pc = "loop"
    /\ IF rt.attempt <= rt.maxAttempts
       THEN rt' = [rt EXCEPT !.pc = "call"]
       ELSE rt' = [rt EXCEPT !.pc = "returned",
                             !.result = AllAttemptsFailed(rt.maxAttempts, rt.lastErr)]
    /\ UNCHANGED <<pool, fan, bc, cs, rl, pl, rc, dw, df, ro, th>>

\* if err := operation(); err == nil { return nil } else { lastErr = err;
\* if attempt < maxAttempts { ... } }; attempt++
RtOperation(err) ==
    /\ rt.pc = "call"
    /\ IF err = <<>>
       THEN rt' = [rt EXCEPT !.calls = Append(@, err), !.pc = "returned", !.result = <<>>]
       ELSE IF rt.attempt < rt.maxAttempts
            THEN rt' = [rt EXCEPT !.calls = Append(@, err), !.lastErr = err, !.pc = "sleep"]
            ELSE rt' = [rt EXCEPT !.calls = Append(@, err), !.lastErr = err,
                                  !.attempt = @ + 1, !.pc = "loop"]
    /\ UNCHANGED <<pool, fan, bc, cs, rl, pl, rc, dw, df, ro, th>>

\* time.Sleep(backoff); backoff *= 2; attempt++
RtSleep ==
    /\ rt.pc = "sleep"
    /\ rt' = [rt EXCEPT !.waits = Append(@, rt.backoff), !.backoff = @ * 2,
                        !.attempt = @ + 1, !.pc = "loop"]
    /\ UNCHANGED <<pool, fan, bc, cs, rl, pl, rc, dw, df, ro, th>>

RtNext ==
    \/ RtLoop
    \/ \E err \in OpErrors \cup {<<>>} : RtOperation(err)
    \/ RtSleep

(***************************************************************************)
(* Retry of a fixed operation: retryableOperation, doOperation,            *)
(* isRetryableError                                                        *)
(***************************************************************************)

\* const maxRetries = 3
MaxRetries == 3

\* errors.New("temporary network error"), and other errors doOperation
\* could return, as the words of their messages
NetworkError == <<"temporary", "network", "error">>
RoErrors ==
    {NetworkError, <<"connection", "timeout">>, <<"dns", "timeout">>,
     <<"permission", "denied">>}

\* strings.Contains(err.Error(), "network") || strings.Contains(err.Error(), "timeout")
IsRetryableError(err) == \E i \in 1..Len(err) : err[i] \in {"network", "timeout"}

\* fmt.Errorf("non-retryable error: %w", err)
NonRetryable(err) == <<"non-retryable error", err>>

\* fmt.Errorf("operation failed after %d attempts: %w", maxRetries, err)
FailedAfter(n, err) == <<"operation failed after attempts", n, err>>

\* operationAttempts++; if operationAttempts < 3 { return errors.New(...) }; return nil
DoOperation(operationAttempts) == IF operationAttempts + 1 < 3 THEN NetworkError ELSE <<>>

\* coded: doOperation is the one of the source; otherwise it may return any
\* error or nil.  via names the return statement that ended the call.
RoStart(coded) ==
    [coded |-> coded, pc |-> "loop", attempt |-> 1, operationAttempts |-> 0,
     err |-> <<>>, calls |-> <<>>, waits |-> <<>>, result |-> <<>>, via |-> "none"]

RoIdle == [RoStart(TRUE) EXCEPT !.pc = "off"]

\* for attempt := 1; attempt <= maxRetries; attempt++; after the loop: return nil
RoLoop ==
    /\ ro.pc = "loop"
    /\ IF ro.attempt <= MaxRetries
       THEN ro' = [ro EXCEPT !.pc = "call"]
       ELSE ro' = [ro EXCEPT !.pc = "returned", !.result = <<>>, !.via = "afterLoop"]
    /\ UNCHANGED <<pool, fan, bc, cs, rl, pl, rc, dw, df, rt, th>>

\* err := doOperation()
RoDoOperation(err) ==
    /\ ro.pc = "call"
    /\ ro.coded => err = DoOperation(ro.operationAttempts)
    /\ ro' = [ro EXCEPT !.operationAttempts = @ + 1, !.err = err,
                        !.calls = Append(@, err), !.pc = "check"]
    /\ UNCHANGED <<pool, fan, bc, cs, rl, pl, rc, dw, df, rt, th>>

\* mutation of RoCheck: the test attempt == maxRetries is missing
RoCheckNoLastAttempt ==
    /\ ro.pc = "check"
    /\ IF ro.err = <<>>
       THEN ro' = [ro EXCEPT !.pc = "returned", !.result = <<>>, !.via = "success"]
       ELSE IF ~IsRetryableError(ro.err)
            THEN ro' = [ro EXCEPT !.pc = "returned", !.result = NonRetryable(ro.err),
                                  !.via = "nonRetryable"]
            ELSE ro' = [ro EXCEPT !.pc = "sleep"]
    /\ UNCHANGED <<pool, fan, bc, cs, rl, pl, rc, dw, df, rt, th>>

\* if err == nil { return nil }; if !isRetryableError(err) { return ... };
\* if attempt == maxRetries { return ... }
RoCheck ==
    /\ ro.pc = "check"
    /\ IF ro.err = <<>>
       THEN ro' = [ro EXCEPT !.pc = "returned", !.result = <<>>, !.via = "success"]
       ELSE IF ~IsRetryableError(ro.err)
            THEN ro' = [ro EXCEPT !.pc = "returned", !.result = NonRetryable(ro.err),
                                  !.via = "nonRetryable"]
            ELSE IF ro.attempt = MaxRetries
                 THEN ro' = [ro EXCEPT !.pc = "returned",
                                       !.result = FailedAfter(MaxRetries, ro.err),
                                       !.via = "exhausted"]
                 ELSE ro' = [ro EXCEPT !.pc = "sleep"]
    /\ UNCHANGED <<pool, fan, bc, cs, rl, pl, rc, dw, df, rt, th>>

\* time.Sleep(time.Duration(attempt) * 100 * time.Millisecond); attempt++
RoSleep ==
    /\ ro.pc = "sleep"
    /\ ro' = [ro EXCEPT !.waits = Append(@, ro.attempt * 100), !.attempt = @ + 1,
                        !.pc = "loop"]
    /\ UNCHANGED <<pool, fan, bc, cs, rl, pl, rc, dw, df, rt, th>>

RoNext ==
    \/ RoLoop
    \/ \E err \in RoErrors \cup {<<>>} : RoDoOperation(err)
    \/ RoCheck
    \/ RoSleep

(***************************************************************************)
(* Throttle: throttle and its demo in advancedClosuresExample              *)
(***************************************************************************)

\* bounds: calls of the throttled function, last clock value (ticks of 100ms)
MaxThCalls == 5
MaxThTime == 12

\* throttle(saveAction, 1*time.Second); time.Sleep(300 * time.Millisecond)
DemoLimit == 10
DemoSleep == 3

\* sleep = 0: the callers call at any time; otherwise the loop of the demo
ThConfigs ==
    [limit : {0, 1, DemoSleep, DemoLimit}, sleep : {0}]
    \cup {[limit |-> DemoLimit, sleep |-> DemoSleep]}

\* var lastCall time.Time: the zero Time
ZeroTime == 0 - 1

\* now.Sub(lastCall) >= limit; the distance to the zero Time is the largest
\* Duration, which no limit exceeds
LimitElapsed(now, lastCall, limit) == lastCall = ZeroTime \/ now - lastCall >= limit

\* lastCall: the captured variable; ran: for every call, whether it ran fn;
\* runs: the times at which fn ran
ThStart(c) ==
    [limit |-> c.limit, sleep |-> c.sleep, now |-> 0, lastCall |-> ZeroTime,
     pc |-> "call", ran |-> <<>>, runs |-> <<>>]

ThIdle == [ThStart([limit |-> 0, sleep |-> 0]) EXCEPT !.pc = "off"]

\* the clock advances between the calls
ThTick ==
    /\ th.pc = "call"
    /\ th.sleep = 0
    /\ th.now < MaxThTime
    /\ th' = [th EXCEPT !.now = @ + 1]
    /\ UNCHANGED <<pool, fan, bc, cs, rl, pl, rc, dw, df, rt, ro>>

\* mutation of ThCall: every call records its time, whether fn ran or not
ThCallAlwaysRecords ==
    /\ th.pc = "call"
    /\ Len(th.ran) < MaxThCalls
    /\ LET run == LimitElapsed(th.now, th.lastCall, th.limit)
       IN th' = [th EXCEPT !.ran = Append(@, run),
                           !.runs = IF run THEN Append(@, th.now) ELSE @,
                           !.lastCall = th.now,
                           !.pc = IF th.sleep > 0 THEN "sleep" ELSE "call"]
    /\ UNCHANGED <<pool, fan, bc, cs, rl, pl, rc, dw, df, rt, ro>>

\* one call of the closure: now := time.Now(); if now.Sub(lastCall) >= limit
\* { fn(); lastCall = now }
ThCall ==
    /\ th.pc = "call"
    /\ Len(th.ran) < MaxThCalls
    /\ LET run == LimitElapsed(th.now, th.lastCall, th.limit)
       IN th' = [th EXCEPT !.ran = Append(@, run),
                           !.runs = IF run THEN Append(@, th.now) ELSE @,
                           !.lastCall = IF run THEN th.now ELSE @,
                           !.pc = IF th.sleep > 0 THEN "sleep" ELSE "call"]
    /\ UNCHANGED <<pool, fan, bc, cs, rl, pl, rc, dw, df, rt, ro>>

\* time.Sleep(300 * time.Millisecond) in the loop of the demo
ThSleep ==
    /\ th.pc = "sleep"
    /\ th' = [th EXCEPT !.now = @ + th.sleep, !.pc = "call"]
    /\ UNCHANGED <<pool, fan, bc, cs, rl, pl, rc, dw, df, rt, ro>>

ThNext ==
    \/ ThTick
    \/ ThCall
    \/ ThSleep

(***************************************************************************)
(* Specifications: one per pattern                                         *)
(***************************************************************************)

FanIdle == [FanStart([n |-> 0, workers |-> 1]) EXCEPT !.mpc = "off"]

InitPool ==
    /\ pool \in {PoolStart(c) : c \in PoolConfigs}
    /\ fan = FanIdle
    /\ bc = BcIdle
    /\ cs = CsIdle
    /\ rl = RlIdle
    /\ pl = PlIdle
    /\ rc = RcIdle
    /\ dw = DwIdle
    /\ df = DfIdle
    /\ rt = RtIdle
    /\ ro = RoIdle
    /\ th = ThIdle

SpecPool == InitPool /\ [][PoolNext]_vars

InitFan ==
    /\ fan \in {FanStart(c) : c \in FanConfigs}
    /\ pool = PoolIdle
    /\ bc = BcIdle
    /\ cs = CsIdle
    /\ rl = RlIdle
    /\ pl = PlIdle
    /\ rc = RcIdle
    /\ dw = DwIdle
    /\ df = DfIdle
    /\ rt = RtIdle
    /\ ro = RoIdle
    /\ th = ThIdle

SpecFan == InitFan /\ [][FanNext]_vars

InitBroadcast ==
    /\ bc \in {BcStart(c) : c \in BcConfigs}
    /\ pool = PoolIdle
    /\ fan = FanIdle
    /\ cs = CsIdle
    /\ rl = RlIdle
    /\ pl = PlIdle
    /\ rc = RcIdle
    /\ dw = DwIdle
    /\ df = DfIdle
    /\ rt = RtIdle
    /\ ro = RoIdle
    /\ th = ThIdle

SpecBroadcast == InitBroadcast /\ [][BcNext]_vars

InitCancel ==
    /\ cs \in {CsStart(c) : c \in CsConfigs}
    /\ pool = PoolIdle
    /\ fan = FanIdle
    /\ bc = BcIdle
    /\ rl = RlIdle
    /\ pl = PlIdle
    /\ rc = RcIdle
    /\ dw = DwIdle
    /\ df = DfIdle
    /\ rt = RtIdle
    /\ ro = RoIdle
    /\ th = ThIdle

SpecCancel == InitCancel /\ [][CsNext]_vars

InitLimiter ==
    /\ rl \in {RlStart(c) : c \in RlConfigs}
    /\ pool = PoolIdle
    /\ fan = FanIdle
    /\ bc = BcIdle
    /\ cs = CsIdle
    /\ pl = PlIdle
    /\ rc = RcIdle
    /\ dw = DwIdle
    /\ df = DfIdle
    /\ rt = RtIdle
    /\ ro = RoIdle
    /\ th = ThIdle

SpecLimiter == InitLimiter /\ [][RlNext]_vars

InitLimiterConc ==
    /\ rc \in {RcStart(c) : c \in RcConfigs}
    /\ pool = PoolIdle
    /\ fan = FanIdle
    /\ bc = BcIdle
    /\ cs = CsIdle
    /\ rl = RlIdle
    /\ pl = PlIdle
    /\ dw = DwIdle
    /\ df = DfIdle
    /\ rt = RtIdle
    /\ ro = RoIdle
    /\ th = ThIdle

SpecLimiterConc == InitLimiterConc /\ [][RcNext]_vars

InitPipeline ==
    /\ pl \in {PlStart(c) : c \in PlConfigs}
    /\ pool = PoolIdle
    /\ fan = FanIdle
    /\ bc = BcIdle
    /\ cs = CsIdle
    /\ rl = RlIdle
    /\ rc = RcIdle
    /\ dw = DwIdle
    /\ df = DfIdle
    /\ rt = RtIdle
    /\ ro = RoIdle
    /\ th = ThIdle

SpecPipeline == InitPipeline /\ [][PlNext]_vars

InitPoolPanic ==
    /\ pool \in {PoolStartFailing(c, f) : c \in PoolConfigs, f \in 1..MaxJobs}
    /\ pool.fail <= pool.numJobs
    /\ pool.numJobs <= MaxJobs
    /\ fan = FanIdle
    /\ bc = BcIdle
    /\ cs = CsIdle
    /\ rl = RlIdle
    /\ pl = PlIdle
    /\ rc = RcIdle
    /\ dw = DwIdle
    /\ df = DfIdle
    /\ rt = RtIdle
    /\ ro = RoIdle
    /\ th = ThIdle

SpecPoolPanic == InitPoolPanic /\ [][PoolPanicNext]_vars

\* the goroutines of broadcastExample under the Go scheduler: a goroutine
\* that can take a step is not left waiting forever
SpecBroadcastFair == SpecBroadcast /\ WF_vars(BcNext)

\* the goroutine of cancellationExample is scheduled and its sleeps end; so
\* are the polling goroutines and their sleeps
SpecCancelFair ==
    /\ SpecCancel
    /\ WF_vars(CsSpawn \/ CsRequestFire \/ CsComplete)
    /\ WF_vars(\E x \in CsPollers : CsDefault(x) \/ CsWorkDone(x) \/ CsFire(x))

\* the three components that end by closing channels, one of them running
InitClosure ==
    /\ \/ /\ pl \in {PlStart(c) : c \in PlConfigs}
          /\ fan = FanIdle
          /\ bc = BcIdle
       \/ /\ fan \in {FanStart(c) : c \in FanConfigs}
          /\ pl = PlIdle
          /\ bc = BcIdle
       \/ /\ bc \in {BcStart(c) : c \in BcConfigs}
          /\ pl = PlIdle
          /\ fan = FanIdle
    /\ pool = PoolIdle
    /\ cs = CsIdle
    /\ rl = RlIdle
    /\ rc = RcIdle
    /\ dw = DwIdle
    /\ df = DfIdle
    /\ rt = RtIdle
    /\ ro = RoIdle
    /\ th = ThIdle

ClosureNext == PlNext \/ FanNext \/ BcNext

SpecClosure == InitClosure /\ [][ClosureNext]_vars /\ WF_vars(ClosureNext)

InitDefer ==
    /\ dw \in {DwStart(b) : b \in DwConfigs}
    /\ pool = PoolIdle
    /\ fan = FanIdle
    /\ bc = BcIdle
    /\ cs = CsIdle
    /\ rl = RlIdle
    /\ pl = PlIdle
    /\ rc = RcIdle
    /\ df = DfIdle
    /\ rt = RtIdle
    /\ ro = RoIdle
    /\ th = ThIdle

\* the orchestrator and its workers under the Go scheduler: a goroutine that
\* can take a step is not left waiting forever
SpecDeferFair == InitDefer /\ [][DwNext]_vars /\ WF_vars(DwNext)

\* the four components that close channels, one of them running
InitOwnership ==
    /\ \/ /\ pool \in {PoolStart(c) : c \in PoolConfigs}
          /\ pl = PlIdle
          /\ fan = FanIdle
          /\ bc = BcIdle
       \/ /\ pl \in {PlStart(c) : c \in PlConfigs}
          /\ pool = PoolIdle
          /\ fan = FanIdle
          /\ bc = BcIdle
       \/ /\ fan \in {FanStart(c) : c \in FanConfigs}
          /\ pool = PoolIdle
          /\ pl = PlIdle
          /\ bc = BcIdle
       \/ /\ bc \in {BcStart(c) : c \in BcConfigs}
          /\ pool = PoolIdle
          /\ pl = PlIdle
          /\ fan = FanIdle
    /\ cs = CsIdle
    /\ rl = RlIdle
    /\ rc = RcIdle
    /\ dw = DwIdle
    /\ df = DfIdle
    /\ rt = RtIdle
    /\ ro = RoIdle
    /\ th = ThIdle

OwnershipNext == PoolNext \/ PlNext \/ FanNext \/ BcNext

SpecOwnership == InitOwnership /\ [][OwnershipNext]_vars

InitDeferOrder ==
    /\ df \in {DfStart(p) : p \in DfPrograms}
    /\ rt = RtIdle
    /\ ro = RoIdle
    /\ th = ThIdle
    /\ pool = PoolIdle
    /\ fan = FanIdle
    /\ bc = BcIdle
    /\ cs = CsIdle
    /\ rl = RlIdle
    /\ pl = PlIdle
    /\ rc = RcIdle
    /\ dw = DwIdle

SpecDeferOrder == InitDeferOrder /\ [][DfNext]_vars

InitWaitGroup ==
    /\ dw \in WgConfigs
    /\ pool = PoolIdle
    /\ fan = FanIdle
    /\ bc = BcIdle
    /\ cs = CsIdle
    /\ rl = RlIdle
    /\ pl = PlIdle
    /\ rc = RcIdle
    /\ df = DfIdle
    /\ rt = RtIdle
    /\ ro = RoIdle
    /\ th = ThIdle

SpecWaitGroup == InitWaitGroup /\ [][WgNext]_vars

InitWaitGroupError ==
    /\ dw \in ErrConfigs
    /\ pool = PoolIdle
    /\ fan = FanIdle
    /\ bc = BcIdle
    /\ cs = CsIdle
    /\ rl = RlIdle
    /\ pl = PlIdle
    /\ rc = RcIdle
    /\ df = DfIdle
    /\ rt = RtIdle
    /\ ro = RoIdle
    /\ th = ThIdle

SpecWaitGroupError == InitWaitGroupError /\ [][ErrNext]_vars

InitRetry ==
    /\ rt \in {RtStart(m) : m \in 0..MaxAttempts}
    /\ pool = PoolIdle
    /\ fan = FanIdle
    /\ bc = BcIdle
    /\ cs = CsIdle
    /\ rl = RlIdle
    /\ pl = PlIdle
    /\ rc = RcIdle
    /\ dw = DwIdle
    /\ df = DfIdle
    /\ ro = RoIdle
    /\ th = ThIdle

SpecRetry == InitRetry /\ [][RtNext]_vars

InitRetryable ==
    /\ ro \in {RoStart(coded) : coded \in BOOLEAN}
    /\ pool = PoolIdle
    /\ fan = FanIdle
    /\ bc = BcIdle
    /\ cs = CsIdle
    /\ rl = RlIdle
    /\ pl = PlIdle
    /\ rc = RcIdle
    /\ dw = DwIdle
    /\ df = DfIdle
    /\ rt = RtIdle
    /\ th = ThIdle

SpecRetryable == InitRetryable /\ [][RoNext]_vars

InitThrottle ==
    /\ th \in {ThStart(c) : c \in ThConfigs}
    /\ pool = PoolIdle
    /\ fan = FanIdle
    /\ bc = BcIdle
    /\ cs = CsIdle
    /\ rl = RlIdle
    /\ pl = PlIdle
    /\ rc = RcIdle
    /\ dw = DwIdle
    /\ df = DfIdle
    /\ rt = RtIdle
    /\ ro = RoIdle

SpecThrottle == InitThrottle /\ [][ThNext]_vars

(***************************************************************************)
(* Worker pool properties                                                  *)
(***************************************************************************)

\* the values the pool has to deliver: 2*j for every job j
PoolExpected == SeqToBag([j \in 1..pool.numJobs |-> 2 * j])

PoolCompleteAtEnd ==
    /\ pool.opc # "done" => ENABLED PoolNext
    /\ pool.opc = "done" =>
          /\ pool.results.closed = 1
          /\ Len(pool.collected) = pool.numJobs
          /\ SeqToBag(pool.collected) = PoolExpected

RECURSIVE BagOfSeqs(_, _)
BagOfSeqs(f, S) ==
    IF S = {} THEN EmptyBag
    ELSE LET x == CHOOSE y \in S : TRUE IN SeqToBag(f[x]) (+) BagOfSeqs(f, S \ {x})

\* the squares fan-out workers hold and have not yet sent
FanHeld == [x \in FanIdx |-> IF fan.fo[x] = "send" THEN <<fan.foVal[x] * fan.foVal[x]>> ELSE <<>>]

\* C3: every item taken from the shared input is, as its square, with exactly
\* one fan-out worker or sent on exactly one output channel; when all output
\* channels are closed every one of the n items has been sent exactly once.
C3_FanOutExactlyOnce ==
    /\ BagOfSeqs(fan.sentOn, FanIdx) (+) BagOfSeqs(FanHeld, FanIdx)
         = SeqToBag([j \in 1..(fan.next - 1) |-> j * j])
    /\ (\A x \in FanIdx : fan.outputsClosed[x] > 0) =>
         BagOfSeqs(fan.sentOn, FanIdx) = SeqToBag([j \in 1..fan.n |-> j * j])

C3_Witness ==
    /\ \A x \in FanIdx : fan.outputsClosed[x] > 0
    /\ fan.n >= 3
    /\ \E x, y \in FanIdx : x # y /\ fan.sentOn[x] # <<>> /\ fan.sentOn[y] # <<>>

\* C4: the merged output is closed at most once, and when it is closed every
\* input of fanIn is closed, every forwarder has left its loop and called
\* Done, and no forwarder holds an undelivered value.
C4_FanInClosesLast ==
    /\ fan.outputClosed <= 1
    /\ fan.outputClosed > 0 =>
         /\ fan.wg = 0
         /\ \A x \in FanIdx :
              /\ fan.outputsClosed[x] > 0
              /\ fan.fi[x] = "done"
              /\ fan.fo[x] = "done"
         /\ Len(fan.received) = fan.next - 1

C4_Witness ==
    /\ fan.outputClosed = 1
    /\ fan.workers >= 2
    /\ Len(fan.received) >= 2


(***************************************************************************)
(* Broadcast properties                                                    *)
(***************************************************************************)

\* what a subscriber that observes every message prints, in sending order
BcAllMessages(x) == [k \in 1..bc.n |-> Format(SubName(x), Messages[k])]

\* C5: when broadcastExample has finished, every subscriber has observed
\* every message sent on the input, in the order sent.
C5_BroadcastFidelity ==
    bc.mpc = "done" => \A x \in BcSubs : bc.seen[x] = BcAllMessages(x)


(***************************************************************************)
(* Cancellation properties                                                 *)
(***************************************************************************)

\* C6: a second or later fire completes without blocking the caller, also
\* when the polling task has already exited: main is never left at a later
\* send on done that no poller is there to receive.
C6_FireIdempotent ==
    (cs.mpc = "fire" /\ cs.delivered >= 1) => \E x \in CsPollers : cs.w[x] # "returned"

\* C7: after a single fire every polling task observes the signal on every
\* later poll: once a send on done has been received, no poll of any task
\* takes the default case.
C7_FireBroadcastPermanent ==
    [][cs.delivered >= 1 =>
         \A x \in CsPollers : ~(cs.w[x] = "select" /\ cs'.w[x] = "working")]_vars

\* C8: the poll never blocks; a poller that has received the signal starts
\* no further unit of work; a poll made while the send is pending takes the
\* receive case and returns; a unit in progress is left to finish; with the
\* one poller of the source no unit starts once the send has been received.
C8_CancelPromptness ==
    /\ [](\A x \in CsPollers :
            cs.w[x] = "select" => (ENABLED CsDefault(x)) \/ (ENABLED CsFire(x)))
    /\ [][\A x \in CsPollers :
            /\ cs.w[x] = "returned" => cs'.w[x] = "returned" /\ cs'.units[x] = cs.units[x]
            /\ (cs.mpc = "fire" /\ cs.w[x] = "select") => cs'.w[x] \in {"select", "returned"}
            /\ cs.w[x] = "working" => cs'.w[x] \in {"working", "select"}
            /\ (cs.pollers = 1 /\ cs.delivered >= 1) => cs'.units = cs.units]_vars

C8_Witness ==
    \E x \in CsPollers :
        /\ cs.w[x] = "returned"
        /\ cs.overlap[x]
        /\ cs.units[x] >= 2
        /\ cs.pollers = 1


(***************************************************************************)
(* Rate limiter properties                                                 *)
(***************************************************************************)

\* the number of calls i..j of the log that returned true
CountOk(i, j) == Cardinality({k \in i..j : rl.log[k].ok})

\* calls i..j lie in one window: none of the calls after i refilled the bucket
SameWindow(i, j) == \A k \in (i + 1)..j : ~rl.log[k].reset

\* C9: between two consecutive window resets at most `requests` calls
\* return true, for any sequence and timing of calls.
C9_AtMostCapacityPerWindow ==
    \A i \in 1..Len(rl.log) : \A j \in i..Len(rl.log) :
        SameWindow(i, j) => CountOk(i, j) <= rl.requests

C9_Witness ==
    /\ rl.requests >= 2
    /\ \E i \in 1..Len(rl.log) : \E j \in i..Len(rl.log) :
         /\ rl.log[i].reset
         /\ SameWindow(i, j)
         /\ CountOk(i, j) = rl.requests
         /\ ~rl.log[j].ok

RlIsDemo == rl.requests = DemoRequests /\ rl.duration = DemoDuration

\* the demo: calls 1-3 are allowed, calls 4-5 are rate limited
RlDemoOutcome ==
    (Len(rl.log) >= DemoCalls /\ rl.log[DemoCalls].t < DemoDuration) =>
        [k \in 1..DemoCalls |-> rl.log[k].ok] = <<TRUE, TRUE, TRUE, FALSE, FALSE>>

\* C10 (as claimed): with capacity 3 and window 1s, calls that all fall
\* within one second of real time yield at most 3 true results, wherever
\* that second lies; in the demo calls 1-3 are allowed and 4-5 limited.
C10_ThreePerSecondAnywhere ==
    RlIsDemo =>
        /\ \A i \in 1..Len(rl.log) : \A j \in i..Len(rl.log) :
             rl.log[j].t - rl.log[i].t < TicksPerSecond => CountOk(i, j) <= DemoRequests
        /\ RlDemoOutcome

\* C10 (amended): with capacity 3 and window 1s, calls that all fall within
\* one window of the limiter (no refill between them) yield at most 3 true
\* results; in the demo calls 1-3 are allowed and 4-5 limited.
C10_ThreePerWindow ==
    RlIsDemo =>
        /\ \A i \in 1..Len(rl.log) : \A j \in i..Len(rl.log) :
             SameWindow(i, j) => CountOk(i, j) <= DemoRequests
        /\ RlDemoOutcome

\* ten calls: the demo outcome, then three further grants after the window
C10_Witness ==
    /\ RlIsDemo
    /\ Len(rl.log) = MaxCalls
    /\ rl.log[DemoCalls].t < DemoDuration
    /\ CountOk(1, DemoCalls) = DemoRequests
    /\ CountOk(DemoCalls + 1, Len(rl.log)) = DemoRequests
    /\ SameWindow(DemoCalls + 1, Len(rl.log))


(***************************************************************************)
(* Concurrent rate limiter properties                                      *)
(***************************************************************************)

\* the tasks that are between mu.Lock() and mu.Unlock()
RcInside == {t \in RcTasks : rc.tpc[t] \in {"now", "elapsed", "check", "load", "store", "unlock"}}

RcGranted == Cardinality({t \in RcTasks : rc.res[t] = "true"})

RcMin(a, b) == IF a < b THEN a ELSE b

\* C11: the calls never interleave (at most one task is between Lock and
\* Unlock, and it holds mu); no decrement is lost (within the first window
\* tokens is the capacity minus the grants made); when N calls from a full
\* bucket have all returned within one window, exactly min(N, capacity) of
\* them returned true.
C11_AcquireMutuallyExclusive ==
    /\ Cardinality(RcInside) <= 1
    /\ \A t \in RcInside : rc.mu = t
    /\ (rc.resets = 0 /\ RcInside = {}) => rc.tokens = rc.requests - RcGranted
    /\ (rc.resets = 0 /\ \A t \in RcTasks : rc.tpc[t] = "done") =>
          RcGranted = RcMin(rc.tasks, rc.requests)

C11_Witness ==
    /\ rc.tasks = 3
    /\ rc.requests = 2
    /\ rc.resets = 0
    /\ \A t \in RcTasks : rc.tpc[t] = "done"
    /\ rc.res[1] = "false"


(***************************************************************************)
(* Fan-out / fan-in round trip and per-source order                        *)
(***************************************************************************)

\* C15: sending 1..n, squaring in the fan-out workers and merging with fanIn
\* never delivers a value twice or a value that is no square of an item;
\* the run cannot stop before main has left its loop, and then main has
\* received, as a multiset, exactly the n squares 1*1 .. n*n and the merged
\* channel is closed.
C15_FanRoundTrip ==
    /\ SeqToBag(fan.received) \sqsubseteq SeqToBag([j \in 1..fan.n |-> j * j])
    /\ \A x \in FanIdx : fan.fi[x] # "panic"
    /\ fan.mpc \notin {"off", "done"} => ENABLED FanNext
    /\ fan.mpc = "done" =>
         /\ SeqToBag(fan.received) = SeqToBag([j \in 1..fan.n |-> j * j])
         /\ Len(fan.received) = fan.n
         /\ fan.outputClosed = 1

C15_Witness ==
    /\ fan.mpc = "done"
    /\ fan.n = 3
    /\ fan.workers = 3
    /\ fan.received = <<9, 1, 4>>

\* the values of sequence s
Range(s) == {s[j] : j \in 1..Len(s)}

\* what forwarder x has passed on: all it received but the value it holds
FanForwarded(x) ==
    IF fan.fi[x] = "send"
    THEN SubSeq(fan.sentOn[x], 1, Len(fan.sentOn[x]) - 1)
    ELSE fan.sentOn[x]

FanFromSource(x) == SelectSeq(fan.received, LAMBDA v : v \in Range(fan.sentOn[x]))

\* C16: for each input channel of fanIn, the values of that channel that main
\* received from the merged output are, in this order, the values sent on
\* that channel and passed on by its forwarder.
C16_FanInPerSourceOrder ==
    \A x \in FanIdx : FanFromSource(x) = FanForwarded(x)

C16_Witness ==
    /\ fan.mpc = "done"
    /\ \E x, y \in FanIdx :
         /\ x # y
         /\ fan.sentOn[x] = <<1, 9>>
         /\ fan.sentOn[y] = <<4>>
         /\ fan.received = <<1, 4, 9>>

(***************************************************************************)
(* Pipeline properties                                                     *)
(***************************************************************************)

IsPrefix(s, t) == Len(s) <= Len(t) /\ SubSeq(t, 1, Len(s)) = s

\* the squares of nums that are odd, in the order of nums
SquaresPassingFilter(nums) ==
    SelectSeq([j \in 1..Len(nums) |-> nums[j] * nums[j]], LAMBDA v : v % 2 = 1)

\* C13: what pipelineExample receives from the last stage is at every moment
\* a prefix of the odd squares of the generated numbers in input order; when
\* its loop has ended it is all of them and the last channel is closed
\* (once); over 1,2,3,4,5 it is exactly 1, 9, 25.
C13_PipelineOrder ==
    pl.stages = DemoStages =>
      /\ IsPrefix(pl.received, SquaresPassingFilter(pl.nums))
      /\ pl.mpc = "done" =>
           /\ pl.received = SquaresPassingFilter(pl.nums)
           /\ pl.closed[PlLast] = 1
           /\ pl.nums = DemoNums => pl.received = <<1, 9, 25>>

C13_Witness ==
    /\ pl.stages = DemoStages
    /\ pl.nums = DemoNums
    /\ pl.mpc = "done"
    /\ pl.received = <<1, 9, 25>>

\* the run of the three transforming stages over 1,2,3,4,5 has ended
ArithRunEnded == pl.stages = ArithStages /\ pl.nums = DemoNums /\ pl.mpc = "done"

\* C14 as stated: the stages +1, *2, -3 over [1,2,3,4,5] output [-1,1,3,5,7].
C14_ArithOutputAsStated ==
    ArithRunEnded => pl.received = <<-1, 1, 3, 5, 7>>

\* C14: the stages +1, *2, -3 over [1,2,3,4,5] output exactly [1,3,5,7,9] in
\* that order, element by element what the closure pipeline of the same
\* three functions returns, (x + 1) * 2 - 3.
C14_ArithOutput ==
    /\ \A x \in 1..5 : Pipeline(ArithStages, x) = (x + 1) * 2 - 3
    /\ pl.stages = ArithStages =>
         IsPrefix(pl.received, [j \in 1..Len(pl.nums) |-> Pipeline(ArithStages, pl.nums[j])])
    /\ ArithRunEnded => pl.received = <<1, 3, 5, 7, 9>>

C14_Witness ==
    /\ ArithRunEnded
    /\ pl.received = <<1, 3, 5, 7, 9>>


(***************************************************************************)
(* Termination by closure, broadcast coupling and termination             *)
(***************************************************************************)

\* every goroutine of the pipeline has returned and every channel is closed
PlQuiescent ==
    /\ pl.mpc = "done"
    /\ pl.gpc = "done"
    /\ \A x \in 1..PlLast : pl.st[x] = "done"
    /\ \A x \in 0..PlLast : pl.closed[x] = 1

FanQuiescent ==
    /\ fan.mpc = "done"
    /\ fan.ppc = "done"
    /\ fan.cpc = "done"
    /\ \A x \in FanIdx : fan.fo[x] = "done" /\ fan.fi[x] = "done"
    /\ \A x \in FanIdx : fan.outputsClosed[x] = 1
    /\ fan.outputClosed = 1

BcQuiescent ==
    /\ bc.mpc = "done"
    /\ bc.spc = "done"
    /\ \A x \in BcSubs : bc.sub[x] = "done" /\ bc.con[x] = "done"
    /\ \A x \in BcSubs : bc.outClosed[x] = 1

\* C12: in the pipeline, in fan-out/fan-in and in the subscribe component the
\* producer closes its channel after finitely many sends and the final
\* consumer keeps receiving; then eventually every spawned goroutine has
\* terminated and every derived output channel is closed.
C12_NoDeadlockUnderClosure ==
    <>(/\ pl.mpc # "off" => PlQuiescent
       /\ fan.mpc # "off" => FanQuiescent
       /\ bc.mpc # "off" => BcQuiescent)

C12_Witness ==
    /\ PlQuiescent
    /\ pl.stages = DemoStages
    /\ pl.nums = DemoNums

\* C17: while a subscriber holds a message its consumer has not accepted, no
\* later message of the input is delivered to any other subscriber.
C17_BackPressureCoupling ==
    [][(\E x \in BcSubs : bc.sub[x] = "send") => bc'.next = bc.next]_vars

\* C18: once the input of the broadcast is closed, eventually every
\* subscriber output is closed, every consume loop has returned and
\* broadcastExample is past wg.Wait(); and the input is eventually closed.
C18_BroadcastTerminates ==
    /\ <>(bc.inputClosed > 0)
    /\ (bc.inputClosed > 0) ~> BcQuiescent

C18_Witness ==
    /\ BcQuiescent
    /\ bc.subs = 3
    /\ bc.n = 3
    /\ \E x \in BcSubs : bc.seen[x] = <<>>


(***************************************************************************)
(* A panic inside a pool worker                                            *)
(***************************************************************************)

\* the workers that were started and have not called Done
PoolNotDone == {i \in PoolWorkers : pool.wpc[i] \in {"range", "send", "panicking"}}

\* the results of all jobs but the failed one
PoolExpectedWithout(f) ==
    SeqToBag(SelectSeq([j \in 1..pool.numJobs |-> 2 * j], LAMBDA v : v # 2 * f))

\* C19: when the processing of one job panics inside a worker, the counter
\* has been decremented once for every worker that left (the panicking one
\* included), and when the run has ended the results channel is closed and
\* the orchestrator has received the results of all other jobs, only the
\* failed job's result missing.
C19_PanicOnlyLosesOneResult ==
    /\ pool.wg = Cardinality(PoolNotDone)
    /\ (pool.fail # 0 /\ ~ ENABLED PoolPanicNext) =>
         /\ pool.results.closed = 1
         /\ SeqToBag(pool.collected) = PoolExpectedWithout(pool.fail)


(***************************************************************************)
(* defer wg.Done() on every exit path                                      *)
(***************************************************************************)

DwExitedOnce ==
    \A t \in DwWorkers :
        /\ dw.dones[t] <= 1
        /\ dw.mode[t] = "exited" => dw.dones[t] = 1

DwWaitReturned ==
    /\ dw.mpc = "done"
    /\ dw.wg = 0
    /\ \A t \in DwWorkers : dw.dones[t] = 1

\* C20: a worker that registered defer wg.Done() never calls Done twice and
\* has called it exactly once when it has exited, by running to its end, by
\* an early return or by a panic recovered inside the worker; the counter is
\* zero once wg.Wait() has returned, and wg.Wait() eventually returns, after
\* which every worker eventually has exited.
C20_DeferDoneEveryPath ==
    /\ [](DwExitedOnce /\ (dw.mpc = "done" => DwWaitReturned))
    /\ <>DwWaitReturned
    /\ <>(\A t \in DwWorkers : dw.mode[t] = "exited")

C20_Witness ==
    /\ DwWaitReturned
    /\ dw.bodies = <<BodyPanicRecovered, BodyEarlyReturn>>
    /\ \A t \in DwWorkers : dw.mode[t] = "exited"


(***************************************************************************)
(* WaitGroup without defer, Add inside the goroutine, unrecovered panic    *)
(***************************************************************************)

\* the workers that have ended without ever calling Done
DwLeftWithoutDone == {t \in DwWorkers : dw.mode[t] = "exited" /\ dw.dones[t] = 0}

\* C21: once a worker has exited on a path without its Done, the counter is
\* above zero, wg.Wait() cannot return and the orchestrator is not past it
\* (an exited worker stays exited, so this holds from then on).
C21_MissingDoneBlocksWait ==
    DwLeftWithoutDone # {} =>
        /\ dw.wg > 0
        /\ ~ ENABLED DwWait
        /\ dw.mpc # "done"

C21_Witness ==
    /\ dw.bodies = <<BodyForgotDone, BodyManualDone>>
    /\ dw.mpc = "wait"
    /\ dw.mode = <<"exited", "exited">>
    /\ dw.wg = 1


\* the workers for which the orchestrator called Add before the launch
DwParentAdded == {t \in DwWorkers : Head(dw.bodies[t]) # "add"}

\* the workers whose Add has been executed, by the orchestrator or by themselves
DwRegistered ==
    {t \in DwParentAdded : t < dw.i \/ (t = dw.i /\ dw.mpc = "go")}
    \cup {t \in DwWorkers \ DwParentAdded : dw.pc[t] > 1}

\* C22: while the program runs the counter is the number of registered
\* workers that have not called Done, so when wg.Wait() has returned every goroutine whose Add the
\* orchestrator executed before launching it has executed Done.  (That a
\* goroutine calling Add itself can be missed by Wait is the reachable state
\* C22_Witness.)
C22_AddBeforeLaunch ==
    /\ dw.mpc # "crashed" => dw.wg = Cardinality({t \in DwRegistered : dw.dones[t] = 0})
    /\ dw.mpc = "done" => \A t \in DwParentAdded : dw.dones[t] = 1

\* wg.Wait() has returned while the first goroutine, launched before it, has
\* not yet executed its own wg.Add(1)
C22_Witness ==
    /\ dw.bodies = <<BodyInnerAdd, BodyNormal>>
    /\ dw.mpc = "done"
    /\ dw.mode[1] = "run"
    /\ dw.pc[1] = 1
    /\ dw.dones = <<0, 1>>


\* C25: in multipleWorkers the panicking worker 1 runs its deferred Done, the
\* recover deferred by the parent handles its panic, so the program is never
\* ended by it, and the run ends with wg.Wait() returned after all five
\* workers called Done.
C25_ParentRecoverHandlesPanic ==
    (dw.bodies = DemoMultipleWorkers /\ dw.parentDefers) =>
        /\ dw.mode[2] \in {"crashed", "exited"} => dw.dones[2] = 1
        /\ dw.mpc # "crashed"
        /\ ~ ENABLED WgNext =>
             /\ dw.mpc = "done"
             /\ \A t \in DwWorkers : dw.dones[t] = 1


(***************************************************************************)
(* Channel close semantics                                                 *)
(***************************************************************************)

\* C23: when results has been closed it holds, together with what the
\* orchestrator already received, the results of all J jobs; every receive
\* after the close takes the oldest buffered value (what was received
\* followed by what is buffered never changes); the range loop never blocks
\* on the closed channel, and it ends exactly when the channel is drained,
\* with all J results received.
C23_CloseKeepsBufferedValues ==
    [][/\ pool'.results.closed > 0 =>
            /\ Len(pool'.collected \o pool'.results.buf) = pool'.numJobs
            /\ SeqToBag(pool'.collected \o pool'.results.buf) = PoolExpected
       /\ pool.results.closed > 0 =>
            pool'.collected \o pool'.results.buf = pool.collected \o pool.results.buf
       /\ pool.opc = "collect" => ENABLED PoolCollect
       /\ pool'.opc = "done" =>
            /\ pool'.results.buf = <<>>
            /\ Len(pool'.collected) = pool'.numJobs]_vars

C23_Witness ==
    /\ pool.opc = "done"
    /\ pool.results.closed = 1
    /\ pool.numJobs = 4
    /\ pool.collected = <<4, 2, 8, 6>>


(***************************************************************************)
(* Single-closer ownership                                                 *)
(***************************************************************************)

\* no channel has been closed twice
ClosedAtMostOnce ==
    /\ pool.jobs.closed <= 1
    /\ pool.results.closed <= 1
    /\ \A c \in 0..PlLast : pl.closed[c] <= 1
    /\ fan.inputClosed <= 1
    /\ fan.outputClosed <= 1
    /\ \A x \in FanIdx : fan.outputsClosed[x] <= 1
    /\ bc.inputClosed <= 1
    /\ \A x \in BcSubs : bc.outClosed[x] <= 1

\* no goroutine has sent, or is about to send, on a closed channel
NoSendOnClosed ==
    /\ pool.opc = "send" => pool.jobs.closed = 0
    /\ \A i \in PoolWorkers :
         /\ pool.wpc[i] # "panic"
         /\ pool.wpc[i] = "send" => pool.results.closed = 0
    /\ pl.gpc = "send" => pl.closed[0] = 0
    /\ \A c \in 1..PlLast : pl.st[c] = "send" => pl.closed[c] = 0
    /\ fan.ppc = "send" => fan.inputClosed = 0
    /\ \A x \in FanIdx :
         /\ fan.fo[x] = "send" => fan.outputsClosed[x] = 0
         /\ fan.fi[x] # "panic"
         /\ fan.fi[x] = "send" => fan.outputClosed = 0
    /\ bc.spc = "send" => bc.inputClosed = 0
    /\ \A x \in BcSubs : bc.sub[x] = "send" => bc.outClosed[x] = 0

\* a step that closes a channel is the last step of the goroutine that sends
\* on it, and no receiver of the channel moves in it
ClosedBySender ==
    /\ pool'.jobs.closed # pool.jobs.closed =>
         pool.opc = "close" /\ pool.j > pool.numJobs /\ pool'.wpc = pool.wpc
    /\ \A c \in 0..PlLast : pl'.closed[c] # pl.closed[c] =>
         /\ IF c = 0 THEN pl.gpc = "send" /\ pl'.gpc = "done"
                     ELSE pl.st[c] = "range" /\ pl'.st[c] = "done"
         /\ pl'.mpc = pl.mpc
         /\ c < PlLast => pl'.st[c + 1] = pl.st[c + 1]
    /\ fan'.inputClosed # fan.inputClosed =>
         fan.ppc = "send" /\ fan'.ppc = "done" /\ fan'.fo = fan.fo
    /\ \A x \in FanIdx : fan'.outputsClosed[x] # fan.outputsClosed[x] =>
         fan.fo[x] = "range" /\ fan'.fo[x] = "done" /\ fan'.fi = fan.fi
    /\ bc'.inputClosed # bc.inputClosed =>
         bc.spc = "send" /\ bc'.spc = "done" /\ bc'.sub = bc.sub
    /\ \A x \in BcSubs : bc'.outClosed[x] # bc.outClosed[x] =>
         bc.sub[x] = "range" /\ bc'.sub[x] = "done" /\ bc'.con = bc.con

\* the other closing steps are taken by the coordinator past wg.Wait(), when
\* every sender of the channel has finished
ClosedByCoordinator ==
    /\ pool'.results.closed # pool.results.closed =>
         /\ pool.opc = "closeResults"
         /\ pool.wg = 0
         /\ \A i \in PoolWorkers : pool.wpc[i] = "done"
    /\ fan'.outputClosed # fan.outputClosed =>
         /\ fan.cpc = "wait" /\ fan'.cpc = "done"
         /\ fan.wg = 0
         /\ \A x \in FanIdx : fan.fi[x] = "done"
         /\ fan'.mpc = fan.mpc

RECURSIVE Reverse(_)
Reverse(s) == IF s = <<>> THEN <<>> ELSE Append(Reverse(Tail(s)), Head(s))

RECURSIVE Concat(_)
Concat(ss) == IF ss = <<>> THEN <<>> ELSE Head(ss) \o Concat(Tail(ss))

RECURSIVE Emitted(_)
\* what a call of a function without variables prints: the lines of its
\* body in order, then what its deferred calls print, last registered first
Emitted(body) ==
    LET prints == SelectSeq(body, LAMBDA st : st.op = "println")
        defers == SelectSeq(body, LAMBDA st : st.op # "println")
    IN  [j \in 1..Len(prints) |-> prints[j].text]
        \o Concat([j \in 1..Len(defers) |->
                     LET st == Reverse(defers)[j]
                     IN  IF st.op = "deferFunc" THEN Emitted(st.body) ELSE <<st.text>>])

DfOrderPrograms ==
    {"deferOrder", "complexExample", "impossibleWithFlatDefer", "multiLevelNesting"}

DfFinished(name) == df.name = name /\ df.mpc = "done"

\* C26: when a function has returned it has printed the lines of its body
\* and then run its deferred calls last registered first, a deferred
\* anonymous function running its own body and deferred calls in the same
\* way before the next deferred call of the outer function: example() emits
\* work, third, second, first; complexExample() work, D, C, B, A;
\* impossibleWithFlatDefer() 6, 5, 3, 4, 2, 1.
C26_DeferLifo ==
    /\ (df.name \in DfOrderPrograms /\ df.mpc = "done") => df.out = Emitted(df.body)
    /\ (DfFinished("deferOrder") /\ Len(df.body) = 4) =>
         df.out = <<"work", "third", "second", "first">>
    /\ DfFinished("complexExample") => df.out = <<"work", "D", "C", "B", "A">>
    /\ DfFinished("impossibleWithFlatDefer") => df.out = <<"6", "5", "3", "4", "2", "1">>

C26_Witness ==
    /\ DfFinished("impossibleWithFlatDefer")
    /\ df.out = <<"6", "5", "3", "4", "2", "1">>

\* C27: the arguments of a deferred call are those of the moment of the
\* defer statement and a deferred closure reads x when it runs:
\* deferWithArguments prints the deferred x as 10 after x was set to 20; in
\* nestedDeferWithParameters the outer defer prints 1 and the inner defer
\* prints the value of the assignment x = 100 made after it was registered.
C27_DeferArgumentCapture ==
    /\ DfFinished("deferWithArguments") =>
         df.out = <<<<"Current", df.x1>>, <<"Deferred", df.x0>>>>
    /\ DfFinished("deferWithPointers") =>
         df.out = <<<<"Current", df.x1>>, <<"Deferred (direct)", df.x0>>,
                    <<"Deferred (closure)", df.x1>>>>
    /\ DfFinished("nestedDeferWithParameters") =>
         /\ df.out[1] = <<"Main", df.x1>>
         /\ df.out[2] = <<"Inner defer", df.x2>>
         /\ df.out[3] = <<"Outer defer", df.x0>>


(***************************************************************************)
(* Rate limiter: the steps of one call, the boundary burst, the state      *)
(***************************************************************************)

\* the step is a call of the closure
RlCalled == Len(rl'.log) = Len(rl.log) + 1

\* the result of the call made in the step
RlResult == rl'.log[Len(rl'.log)].ok

\* C28: every call of the closure, as one step: if now - lastReset >=
\* duration it sets tokens to exactly the capacity and lastReset to now,
\* otherwise it leaves both; then, if tokens > 0, it decrements tokens by
\* exactly one and returns true, otherwise it returns false and leaves
\* tokens; so a call that refills a capacity above zero returns true.
C28_AcquireSteps ==
    [][RlCalled =>
         LET elapsed == rl.now - rl.lastReset >= rl.duration
             filled == IF elapsed THEN rl.requests ELSE rl.tokens
         IN  /\ rl'.lastReset = (IF elapsed THEN rl.now ELSE rl.lastReset)
             /\ RlResult = (filled > 0)
             /\ rl'.tokens = (IF filled > 0 THEN filled - 1 ELSE filled)
             /\ (elapsed /\ rl.requests > 0) => RlResult
             /\ rl'.now = rl.now]_vars

\* a call at a later time found one unused token, refilled to capacity 3 and
\* was granted
C28_Witness ==
    /\ rl.requests = 3
    /\ rl.duration = 2
    /\ Len(rl.log) = 3
    /\ rl.log[3].reset /\ rl.log[3].ok
    /\ ~rl.log[2].reset /\ ~rl.log[1].reset
    /\ rl.tokens = 2

\* the calls i..j are less than one duration apart
RlWithinDuration(i, j) == rl.log[j].t - rl.log[i].t < rl.duration

\* C29: among calls less than one duration apart at most one refills the
\* bucket, and at most 2 * capacity of them return true.  (That capacity
\* grants right after a reset can follow capacity grants just before it is
\* the reachable state C29_Witness.)
C29_BoundaryBurst ==
    \A i \in 1..Len(rl.log) : \A j \in i..Len(rl.log) :
        RlWithinDuration(i, j) =>
            /\ Cardinality({k \in i..j : rl.log[k].reset}) <= 1
            /\ CountOk(i, j) <= 2 * rl.requests

\* capacity grants at the end of a window followed at once by capacity
\* grants of the next window, all less than one duration apart
C29_Witness ==
    /\ rl.requests = 2
    /\ rl.duration = 2
    /\ Len(rl.log) = 4
    /\ \A k \in 1..4 : rl.log[k].ok
    /\ rl.log[3].reset
    /\ RlWithinDuration(1, 4)


\* C30: whatever the tasks calling the closure do, 0 <= tokens <= capacity
\* after every step, and lastReset never decreases: it only moves to the
\* time read by a call that found the window elapsed.
C30_LimiterStateInvariant ==
    [][/\ 0 <= rc'.tokens
       /\ rc'.tokens <= rc'.requests
       /\ rc'.lastReset >= rc.lastReset
       /\ rc'.lastReset # rc.lastReset =>
            \E t \in RcTasks :
                /\ rc.tpc[t] = "elapsed"
                /\ rc.tnow[t] - rc.lastReset >= rc.duration
                /\ rc'.lastReset = rc.tnow[t]]_vars

C30_Witness ==
    /\ rc.tasks = 3
    /\ rc.requests = 1
    /\ rc.lastReset > 0
    /\ rc.tokens = 0
    /\ \A t \in RcTasks : rc.tpc[t] = "done"
    /\ \E t \in RcTasks : rc.res[t] = "false"


\* task t is in a call that found no token and a window that has not elapsed
RcDenying(t) ==
    /\ rc.tpc[t] \in {"elapsed", "check"}
    /\ rc.tokens = 0
    /\ rc.tnow[t] - rc.lastReset < rc.duration

\* C31: a call that finds tokens = 0 and the window not elapsed can always
\* take its next step (it never waits for a token), returns false, and
\* leaves tokens and lastReset as they were.
C31_DeniedAcquire ==
    [][\A t \in RcTasks :
          RcDenying(t) =>
              /\ ENABLED (RcRefill(t) \/ RcCheck(t))
              /\ rc'.tokens = rc.tokens
              /\ rc'.lastReset = rc.lastReset
              /\ rc'.tpc[t] \in {rc.tpc[t], "check", "unlock"}
              /\ rc'.tpc[t] = "unlock" => rc'.res[t] = "false"]_vars

C31_Witness ==
    /\ rc.tasks = 2
    /\ rc.requests = 1
    /\ rc.resets = 0
    /\ rc.tokens = 0
    /\ rc.lastReset = 0
    /\ \A t \in RcTasks : rc.tpc[t] = "done"
    /\ \E t \in RcTasks : rc.res[t] = "false"


\* a worker is stopped at results <- job * 2 with the buffer full
PoolSendBlocked == \E i \in PoolWorkers : pool.wpc[i] = "send" /\ ~CanSend(pool.results)

\* jobs within the results capacity: no worker is ever stopped at its send,
\* results holds all values when it is closed, the run ends at "done"
PoolFits ==
    /\ ~PoolSendBlocked
    /\ pool.opc = "closeResults" => Len(pool.results.buf) = pool.numJobs
    /\ ~ENABLED PoolNext => pool.opc = "done"

BcHeld(x) == bc.seen[x] \o (IF bc.sub[x] = "send" THEN <<bc.subMsg[x]>> ELSE <<>>)

\* the subscribers and positions holding input message k
BcHolders(k) ==
    {h \in BcSubs \X (1..bc.n) :
        /\ h[2] <= Len(BcHeld(h[1]))
        /\ BcHeld(h[1])[h[2]] = Format(SubName(h[1]), Messages[k])}

\* C33: every message sent on input so far is held by exactly one
\* subscriber, formatted with that subscriber's name, and nothing else is
\* held; at the end the subscriber outputs together carry each message once.
C33_EachMessageToOneSubscriber ==
    /\ \A k \in 1..(bc.next - 1) : Cardinality(BcHolders(k)) = 1
    /\ \A x \in BcSubs : \A p \in 1..Len(BcHeld(x)) :
           \E k \in 1..(bc.next - 1) : BcHeld(x)[p] = Format(SubName(x), Messages[k])
    /\ bc.mpc = "done" =>
           /\ bc.next = bc.n + 1
           /\ \A x \in BcSubs : BcHeld(x) = bc.seen[x]

C33_Witness ==
    /\ bc.mpc = "done"
    /\ bc.subs = 3
    /\ bc.n = 3
    /\ bc.seen[1] = <<Format(SubName(1), Messages[2])>>
    /\ bc.seen[2] = <<Format(SubName(2), Messages[3])>>
    /\ bc.seen[3] = <<Format(SubName(3), Messages[1])>>


\* C34: cancellationExample (one poller, one send on done) always ends: the
\* send is received at the poller's next select, the poller returns and the
\* main goroutine reaches "Cancellation complete".
C34_CancellationTerminates ==
    /\ (cs.pollers = 1 /\ cs.fires = 1) =>
           <>[](cs.mpc = "done" /\ cs.w[1] = "returned" /\ cs.delivered = 1)
    /\ [][(cs.pollers = 1 /\ cs.fires = 1 /\ cs.mpc = "fire"
             /\ cs.w[1] = "select" /\ cs'.w[1] # "select")
              => (cs'.w[1] = "returned" /\ cs'.mpc = "cleanup")]_vars

C34_Witness ==
    /\ cs.pollers = 1
    /\ cs.fires = 1
    /\ cs.mpc = "done"
    /\ cs.w[1] = "returned"
    /\ cs.delivered = 1
    /\ cs.units[1] = 1
    /\ cs.overlap[1]


\* the stage goroutines stopped at their send, each holding one value
PlHolding == {x \in 1..PlLast : pl.st[x] = "send"}

\* values generate has taken from its list that were neither received by
\* the final consumer nor dropped: one at the send of generate, one per
\* stage at its send
PlInFlight == (IF PlSenderReady(0) THEN 1 ELSE 0) + Cardinality(PlHolding)

\* pipelineExample: the values that left square and that filterOdd dropped
PlDropped ==
    LET leftSquare == (pl.idx - 1) - (IF pl.st[1] = "send" THEN 1 ELSE 0)
    IN  Cardinality({k \in 1..leftSquare : ~IsOdd(Apply("square", pl.nums[k]))})

\* C35: at most one value in flight per goroutine of the pipeline (3 in
\* pipelineExample); every value generate has sent is held by a stage, was
\* received or was dropped by the filter; a stage takes its next input only
\* when it holds none.
C35_BoundedInFlight ==
    [][/\ PlInFlight' <= 1 + PlLast
       /\ pl.stages = DemoStages =>
             /\ PlInFlight' <= 3
             /\ pl'.idx - 1 = Cardinality(PlHolding') + Len(pl'.received) + PlDropped'
       /\ \A x \in 1..PlLast :
             (pl.st[x] = "send" /\ pl'.st[x] = "send") =>
                 /\ pl'.val[x] = pl.val[x]
                 /\ IF x = 1 THEN pl'.idx = pl.idx
                    ELSE ~(pl.st[x - 1] = "send" /\ pl'.st[x - 1] = "range")]_vars

C35_Witness ==
    /\ pl.nums = DemoNums
    /\ pl.stages = DemoStages
    /\ PlInFlight = 3
    /\ pl.received = <<1>>
    /\ pl.val = <<16, 9>>
    /\ PlSent(0) = 5


\* the fan-out workers that never received an item
FanIdleWorkers == {x \in FanIdx : fan.sentOn[x] = <<>> /\ fan.fo[x] # "send"}

\* C36: with fewer items than fan-out workers (zero included) a worker that
\* received nothing leaves its loop once input is closed and closes its own
\* output; the merged output is closed once, after main received exactly
\* the squares of the items; the run ends with every channel closed.
C36_IdleWorkersClose ==
    fan.n < fan.workers =>
        /\ \A x \in FanIdx :
              (fan.fo[x] = "range" /\ fan.inputClosed > 0) => ENABLED FanOutExit(x)
        /\ \A x \in FanIdleWorkers : fan.fo[x] = "done" => fan.outputsClosed[x] = 1
        /\ fan.outputClosed > 0 =>
              /\ fan.outputClosed = 1
              /\ SeqToBag(fan.received) = SeqToBag([k \in 1..fan.n |-> Square(k)])
        /\ ~ENABLED FanNext =>
              /\ fan.mpc = "done"
              /\ fan.outputClosed = 1
              /\ FanIdleWorkers # {}
              /\ \A x \in FanIdx :
                    fan.fo[x] = "done" /\ fan.fi[x] = "done" /\ fan.outputsClosed[x] = 1

C36_Witness ==
    /\ fan.n = 1
    /\ fan.workers = 3
    /\ fan.mpc = "done"
    /\ fan.sentOn = [x \in 0..2 |-> IF x = 1 THEN <<1>> ELSE <<>>]
    /\ fan.outputsClosed = [x \in 0..2 |-> 1]
    /\ fan.received = <<1>>


\* the values on the errors channel that are errors
DwNonNil == {p \in 1..Len(dw.errors.buf) : dw.errors.buf[p] # <<>>}

\* C37: with a buffer as large as the number of workers no send ever
\* waits; a worker has sent exactly one value when its deferred Done runs;
\* when Wait has returned the channel holds one value per worker, the only
\* error being that of the worker with id 1; errors is closed only then.
C37_OneValuePerWorker ==
    dw.errors.cap >= dw.n =>
        /\ \A t \in DwWorkers :
              /\ (dw.mode[t] = "run" /\ DwStmt(t) \in {"sendErr", "sendNil"}) =>
                     (dw.errors.closed = 0 /\ CanSend(dw.errors))
              /\ dw.sends[t] <= 1
              /\ dw.dones[t] >= 1 => dw.sends[t] = 1
              /\ dw.mode[t] # "panic"
        /\ dw.mpc = "done" =>
              /\ Len(dw.errors.buf) = dw.n
              /\ DwNonNil = {p \in 1..dw.n : dw.errors.buf[p] = Errorf(1)}
              /\ Cardinality(DwNonNil) = (IF dw.n >= 2 THEN 1 ELSE 0)
        /\ dw.errors.closed > 0 =>
              /\ dw.errors.closed = 1
              /\ dw.wg = 0
              /\ Len(dw.errors.buf) + Len(dw.errs) = dw.n
        /\ ~ENABLED ErrNext => dw.mpc = "finished"

C37_Witness ==
    /\ dw.n = 3
    /\ dw.errors.cap = 3
    /\ dw.mpc = "done"
    /\ dw.errors.buf = <<<<>>, Errorf(1), <<>>>>


(***************************************************************************)
(* Retry and throttle properties                                           *)
(***************************************************************************)

\* the invocations of operation that failed
RtFailed == {k \in 1..Len(rt.calls) : rt.calls[k] # <<>>}

RECURSIVE Pow2(_)
Pow2(k) == IF k = 0 THEN 1 ELSE 2 * Pow2(k - 1)

\* C38 (as claimed): at most maxAttempts invocations, none after the first
\* nil; nil is returned at the first nil; a non-nil error is returned iff
\* all maxAttempts invocations failed, and it wraps the error of the last
\* invocation; the waits are 100, 200, 400, ... and none follows the final
\* attempt.
C38_RetryWithBackoff ==
    /\ Len(rt.calls) <= rt.maxAttempts
    /\ \A k \in 1..(Len(rt.calls) - 1) : rt.calls[k] # <<>>
    /\ \A k \in 1..Len(rt.waits) : rt.waits[k] = 100 * Pow2(k - 1)
    /\ Len(rt.waits) <= Cardinality(RtFailed)
    /\ rt.pc = "returned" =>
          /\ (rt.result = <<>>) <=> (rt.calls # <<>> /\ rt.calls[Len(rt.calls)] = <<>>)
          /\ (rt.result # <<>>) <=> Cardinality(RtFailed) = rt.maxAttempts
          /\ rt.result # <<>> =>
                /\ rt.calls # <<>>
                /\ rt.result = AllAttemptsFailed(rt.maxAttempts, rt.calls[Len(rt.calls)])
          /\ rt.calls # <<>> => Len(rt.waits) = Len(rt.calls) - 1


\* an attempt of retryableOperation that succeeded
RoSucceeded == ro.calls # <<>> /\ ro.calls[Len(ro.calls)] = <<>>

\* C39: at most 3 attempts; nil is returned at the first successful attempt
\* (the third with the doOperation of the source); an error that is not
\* retryable ends the call at once, wrapped as non-retryable; a retryable
\* failure of the third attempt gives "operation failed after 3 attempts";
\* nil is never returned without a successful attempt.
C39_RetryableOperation ==
    /\ Len(ro.calls) <= 3
    /\ \A k \in 1..(Len(ro.calls) - 1) : ro.calls[k] # <<>> /\ IsRetryableError(ro.calls[k])
    /\ ro.pc = "returned" =>
          LET last == ro.calls[Len(ro.calls)]
          IN  /\ ro.calls # <<>>
              /\ ro.via # "afterLoop"
              /\ (ro.result = <<>>) <=> RoSucceeded
              /\ (last # <<>> /\ ~IsRetryableError(last)) =>
                     ro.result = NonRetryable(last)
              /\ (last # <<>> /\ IsRetryableError(last)) =>
                     (Len(ro.calls) = 3 /\ ro.result = FailedAfter(3, last))
              /\ ro.coded => (ro.result = <<>> /\ Len(ro.calls) = 3)

C39_Witness ==
    /\ ro.pc = "returned"
    /\ ~ro.coded
    /\ ro.calls = <<NetworkError, <<"connection", "timeout">>, <<"permission", "denied">>>>
    /\ ro.result = NonRetryable(<<"permission", "denied">>)


\* the call being made runs fn
ThRuns == th'.ran[Len(th'.ran)]

\* C40: fn runs on a call iff it has not run before or at least `limit` has
\* passed since the call on which it last ran; so the first call runs it
\* and two executions are at least `limit` apart; in the demo (limit 1s,
\* calls 300ms apart) it runs on calls 1 and 5 only.
C40_Throttle ==
    /\ [][Len(th'.ran) = Len(th.ran) + 1 =>
             (ThRuns <=> (th.runs = <<>> \/ th.now - th.runs[Len(th.runs)] >= th.limit))]_vars
    /\ [](/\ th.ran # <<>> => th.ran[1]
          /\ \A i \in 1..Len(th.runs) : \A j \in (i + 1)..Len(th.runs) :
                 th.runs[j] - th.runs[i] >= th.limit
          /\ (th.limit = 10 /\ th.sleep = 3 /\ Len(th.ran) = 5) =>
                 th.ran = <<TRUE, FALSE, FALSE, FALSE, TRUE>>)

C40_Witness ==
    /\ th.limit = 10
    /\ th.sleep = 3
    /\ th.ran = <<TRUE, FALSE, FALSE, FALSE, TRUE>>
    /\ th.runs = <<0, 12>>

====
